---- MODULE Spec2Model ----
(***************************************************************************)
(* tasktree: incremental task runner.  The model covers the staleness      *)
(* detector (executor.py), the closure run (tasks.py), the state store     *)
(* (state.py), the hashing scheme (hasher.py) and the dependency           *)
(* resolver (graph.py).                                                    *)
(*                                                                         *)
(* Time is counted in ticks; TicksPerSecond ticks make one second.  A      *)
(* file's st_mtime is a tick count, and int(st_mtime) is the whole number  *)
(* of seconds in it, as int() truncates the float the code reads.          *)
(***************************************************************************)
EXTENDS Integers, Sequences, FiniteSets, TLC

MaxClock == 2
MaxDeps == 2
MaxEvents == 3
TicksPerSecond == 2

VARIABLES
    tasks,          \* the recipe: task name -> definition (parser.TaskDefinition)
    environments,   \* the recipe's named environments: name -> definition
    fs,             \* the project directory: path -> [exists, mtime]
    clock,          \* wall clock, in ticks
    state,          \* StateManager._state: cache key -> TaskState
    state_file,     \* contents of the .tasktree-state file
    pc,             \* "idle" or "running" (inside tasks.execute_task)
    run,            \* the closure run in progress, or the last one
    changed,        \* something was changed from outside since the last run ended
    dirty,          \* tasks with an input written since their state was recorded
    last_check,     \* the last direct call of check_task_status and its result
    seen,           \* history: cache key -> what the task depends on (its
                    \* input files, its dependencies' outputs, its
                    \* environment) as it was when the entry was recorded
    nruns,          \* closure runs or executor calls started so far
    nedits,         \* changes made from outside so far
    ret             \* what the call that has just ended returned or raised

vars == <<tasks, environments, fs, clock, state, state_file, pc, run, changed,
          dirty, last_check, seen, nruns, nedits, ret>>

Range(s) == {s[i] : i \in DOMAIN s}

-----------------------------------------------------------------------------
(* The recipe.  A compiles the source, B produces a second object after A  *)
(* without declaring inputs, C consumes every object file; G rewrites the  *)
(* source after A has run and declares neither inputs nor outputs.         *)

Files == {"src", "a.o", "b.o"}
TaskNames == {"G", "A", "B", "C"}

NoArgs == <<>>
ArgChoices == {NoArgs, [mode |-> "dbg"]}

(* The argument maps a caller passes for a task: only C's command takes one. *)
ArgsOf(t) == IF t = "C" THEN ArgChoices ELSE {NoArgs}

TaskDef(cmd, deps, inputs, outputs, env) ==
    [cmd |-> cmd, deps |-> deps, inputs |-> inputs, outputs |-> outputs,
     working_dir |-> "", args |-> <<>>, env |-> env, desc |-> ""]

Recipe ==
    [n \in TaskNames |->
        CASE n = "G" -> TaskDef("regen", <<"A">>, <<>>, <<>>, "")
          [] n = "A" -> TaskDef("compile", <<>>, <<"src">>, <<"a.o">>, "")
          [] n = "B" -> TaskDef("second", <<"A">>, <<>>, <<"b.o">>, "test")
          [] n = "C" -> TaskDef("link {{mode}}", <<"B">>, <<"*.o">>, <<>>, "")]

Shells == {"/bin/bash", "/bin/zsh"}

(* What a command can write when it runs: any subset of these files.      *)
Writes(cmd) ==
    CASE cmd = "regen" -> {"src"}
      [] cmd = "compile" -> {"a.o"}
      [] cmd = "compile -O" -> {"a.o"}
      [] cmd = "second" -> {"b.o"}
      [] OTHER -> {}

-----------------------------------------------------------------------------
(* hasher.py.  A digest is modelled by the canonical text it is the digest *)
(* of (no collisions); a string is a sequence of tokens, "" is << >>.       *)

EmptyStr == <<>>
Sep == [sep |-> "__"]

BagOf(s) == [e \in Range(s) |-> Cardinality({i \in DOMAIN s : s[i] = e})]

(* A variant that leaves the working directory out of the digest.          *)
hash_task_definition_NoWorkingDir(definition) ==
    <<[sha |-> [cmd |-> definition.cmd,
                outputs |-> BagOf(definition.outputs),
                args |-> BagOf(definition.args)]]>>

(* A variant that takes the dependencies into the digest as well.         *)
hash_task_definition_WithDeps(definition) ==
    <<[sha |-> [cmd |-> definition.cmd,
                outputs |-> BagOf(definition.outputs),
                working_dir |-> definition.working_dir,
                args |-> BagOf(definition.args),
                deps |-> definition.deps]]>>

hash_task_definition(definition) ==
    <<[sha |-> [cmd |-> definition.cmd,
                outputs |-> BagOf(definition.outputs),
                working_dir |-> definition.working_dir,
                args |-> BagOf(definition.args)]]>>

(* A dict as Python holds it is the sequence of its <<name, value>> items  *)
(* in insertion order; None is no dict at all.  The names in use, in       *)
(* lexicographic order, for sorted().                                      *)
None == << <<"None">> >>

NameRank(name) ==
    CASE name = "a" -> 1
      [] name = "b" -> 2
      [] name = "mode" -> 3

sorted(items) ==
    [j \in DOMAIN items |->
        items[CHOOSE i \in DOMAIN items :
                Cardinality({k \in DOMAIN items :
                    NameRank(items[k][1]) < NameRank(items[i][1])}) = j - 1]]

(* The items of an argument map of the executor, which the model holds as  *)
(* a function: in one of the orders the caller could have built it.        *)
dict_items(args) ==
    LET names == DOMAIN args
    IN  [j \in 1..Cardinality(names) |->
            LET name == CHOOSE x \in names :
                    Cardinality({y \in names : NameRank(y) < NameRank(x)}) = j - 1
            IN  <<name, args[name]>>]

(* A variant that digests the items in the order given.                    *)
hash_arguments_Unsorted(args) ==
    IF args = None \/ args = <<>> THEN EmptyStr ELSE <<[sha |-> args]>>

(* hasher.py 38-58: "" when there is nothing to hash, else the digest of   *)
(* the JSON text of the items sorted by name, each value as str(value)     *)
(* (the values are strings here).                                          *)
hash_arguments(args) ==
    IF args = None \/ args = <<>> THEN EmptyStr ELSE <<[sha |-> sorted(args)]>>

make_cache_key(task_hash, args_hash) ==
    IF args_hash # EmptyStr THEN task_hash \o <<Sep>> \o args_hash ELSE task_hash

_get_task_hash(task_def) == hash_task_definition(task_def)

CacheKey(task_def, args) ==
    make_cache_key(_get_task_hash(task_def),
                   IF args # NoArgs THEN hash_arguments(dict_items(args))
                   ELSE EmptyStr)

-----------------------------------------------------------------------------
(* The file system as the executor probes it.                              *)

NoFile == [exists |-> FALSE, mtime |-> 0]

int_mtime(fsx, f) == fsx[f].mtime \div TicksPerSecond

Matches(pattern) ==
    IF pattern = "*.o" THEN {"a.o", "b.o"} ELSE {pattern} \cap Files

(* What is in the place of a path besides a file or nothing: a symbolic    *)
(* link whose target is missing ("broken_symlink"), or a name in a         *)
(* directory the process may list but not search ("denied": stat of the    *)
(* path fails with EACCES, whether or not a file is there).                *)
Kind(fsx, f) == IF "kind" \in DOMAIN fsx[f] THEN fsx[f].kind ELSE "file"

(* glob.glob: a pattern without wildcard matches when os.path.lexists      *)
(* says so, which is true of a broken link and false when lstat fails; a   *)
(* wildcard matches the names the directory lists.                         *)
glob(fsx, pattern) ==
    {f \in Matches(pattern) :
        CASE Kind(fsx, f) = "broken_symlink" -> TRUE
          [] Kind(fsx, f) = "denied" -> pattern = "*.o" /\ fsx[f].exists
          [] OTHER -> fsx[f].exists}

_get_all_input_files(fsx, task_def) ==
    UNION {glob(fsx, task_def.inputs[i]) : i \in DOMAIN task_def.inputs}

_get_input_changes(fsx, task_def, cached_state) ==
    {f \in _get_all_input_files(fsx, task_def) :
        \/ ~fsx[f].exists
        \/ f \notin DOMAIN cached_state.input_state
        \/ int_mtime(fsx, f) > cached_state.input_state[f]}

_task_definition_changed(task_def, cached_state) == FALSE

-----------------------------------------------------------------------------
(* executor.py: check_task_status.                                         *)

TaskStatus(task_name, will_run, reason, changed_files, last_run) ==
    [task_name |-> task_name, will_run |-> will_run, reason |-> reason,
     changed_files |-> changed_files, last_run |-> last_run]

MissingOutputs(fsx, task_def) ==
    {i \in DOMAIN task_def.outputs :
        ~(task_def.outputs[i] \in Files /\ fsx[task_def.outputs[i]].exists)}

FirstMissing(fsx, task_def) ==
    CHOOSE i \in MissingOutputs(fsx, task_def) :
        \A j \in MissingOutputs(fsx, task_def) : i <= j

(* Variants of check_task_status with one slip each, used to see that the *)
(* properties below depend on it: the cache key built without the          *)
(* arguments, the outputs rule left out, the dependency rule left out.     *)
check_task_status_KeyWithoutArgs(name, task_def, args, dep_statuses) ==
    LET cache_key == _get_task_hash(task_def)
    IN  IF cache_key \notin DOMAIN state
        THEN TaskStatus(name, TRUE, "never_run", {}, <<>>)
        ELSE
        LET cached_state == state[cache_key]
            input_changes == _get_input_changes(fs, task_def, cached_state)
        IN  IF input_changes # {}
            THEN TaskStatus(name, TRUE, "inputs_changed", input_changes, <<>>)
            ELSE IF MissingOutputs(fs, task_def) # {}
            THEN TaskStatus(name, TRUE, "outputs_missing",
                            {task_def.outputs[FirstMissing(fs, task_def)]}, <<>>)
            ELSE IF \E d \in DOMAIN dep_statuses : dep_statuses[d].will_run
            THEN TaskStatus(name, TRUE, "dependency_triggered", {}, <<>>)
            ELSE IF task_def.inputs = <<>> /\ task_def.outputs = <<>>
            THEN TaskStatus(name, TRUE, "no_outputs", {}, <<>>)
            ELSE TaskStatus(name, FALSE, "fresh", {}, <<cached_state.last_run>>)

check_task_status_NoOutputsRule(name, task_def, args, dep_statuses) ==
    LET cache_key == CacheKey(task_def, args)
    IN  IF cache_key \notin DOMAIN state
        THEN TaskStatus(name, TRUE, "never_run", {}, <<>>)
        ELSE
        LET cached_state == state[cache_key]
            input_changes == _get_input_changes(fs, task_def, cached_state)
        IN  IF input_changes # {}
            THEN TaskStatus(name, TRUE, "inputs_changed", input_changes, <<>>)
            ELSE IF \E d \in DOMAIN dep_statuses : dep_statuses[d].will_run
            THEN TaskStatus(name, TRUE, "dependency_triggered", {}, <<>>)
            ELSE IF task_def.inputs = <<>> /\ task_def.outputs = <<>>
            THEN TaskStatus(name, TRUE, "no_outputs", {}, <<>>)
            ELSE TaskStatus(name, FALSE, "fresh", {}, <<cached_state.last_run>>)

check_task_status_NoDependencyRule(name, task_def, args, dep_statuses) ==
    LET cache_key == CacheKey(task_def, args)
    IN  IF cache_key \notin DOMAIN state
        THEN TaskStatus(name, TRUE, "never_run", {}, <<>>)
        ELSE
        LET cached_state == state[cache_key]
            input_changes == _get_input_changes(fs, task_def, cached_state)
        IN  IF input_changes # {}
            THEN TaskStatus(name, TRUE, "inputs_changed", input_changes, <<>>)
            ELSE IF MissingOutputs(fs, task_def) # {}
            THEN TaskStatus(name, TRUE, "outputs_missing",
                            {task_def.outputs[FirstMissing(fs, task_def)]}, <<>>)
            ELSE IF task_def.inputs = <<>> /\ task_def.outputs = <<>>
            THEN TaskStatus(name, TRUE, "no_outputs", {}, <<>>)
            ELSE TaskStatus(name, FALSE, "fresh", {}, <<cached_state.last_run>>)

(* A variant that looks at the outputs before the inputs.                  *)
check_task_status_OutputsFirst(name, task_def, args, dep_statuses) ==
    LET cache_key == CacheKey(task_def, args)
    IN  IF cache_key \notin DOMAIN state
        THEN TaskStatus(name, TRUE, "never_run", {}, <<>>)
        ELSE
        LET cached_state == state[cache_key]
            input_changes == _get_input_changes(fs, task_def, cached_state)
        IN  IF MissingOutputs(fs, task_def) # {}
            THEN TaskStatus(name, TRUE, "outputs_missing",
                            {task_def.outputs[FirstMissing(fs, task_def)]}, <<>>)
            ELSE IF input_changes # {}
            THEN TaskStatus(name, TRUE, "inputs_changed", input_changes, <<>>)
            ELSE IF \E d \in DOMAIN dep_statuses : dep_statuses[d].will_run
            THEN TaskStatus(name, TRUE, "dependency_triggered", {}, <<>>)
            ELSE IF task_def.inputs = <<>> /\ task_def.outputs = <<>>
            THEN TaskStatus(name, TRUE, "no_outputs", {}, <<>>)
            ELSE TaskStatus(name, FALSE, "fresh", {}, <<cached_state.last_run>>)

(* A variant without the rule for tasks that declare no input and no       *)
(* output.                                                                 *)
check_task_status_NoIORule(name, task_def, args, dep_statuses) ==
    LET cache_key == CacheKey(task_def, args)
    IN  IF cache_key \notin DOMAIN state
        THEN TaskStatus(name, TRUE, "never_run", {}, <<>>)
        ELSE
        LET cached_state == state[cache_key]
            input_changes == _get_input_changes(fs, task_def, cached_state)
        IN  IF input_changes # {}
            THEN TaskStatus(name, TRUE, "inputs_changed", input_changes, <<>>)
            ELSE IF MissingOutputs(fs, task_def) # {}
            THEN TaskStatus(name, TRUE, "outputs_missing",
                            {task_def.outputs[FirstMissing(fs, task_def)]}, <<>>)
            ELSE IF \E d \in DOMAIN dep_statuses : dep_statuses[d].will_run
            THEN TaskStatus(name, TRUE, "dependency_triggered", {}, <<>>)
            ELSE TaskStatus(name, FALSE, "fresh", {}, <<cached_state.last_run>>)

check_task_status(name, task_def, args, dep_statuses) ==
    LET cache_key == CacheKey(task_def, args)
    IN  IF cache_key \notin DOMAIN state
        THEN TaskStatus(name, TRUE, "never_run", {}, <<>>)
        ELSE
        LET cached_state == state[cache_key]
            input_changes == _get_input_changes(fs, task_def, cached_state)
        IN  IF _task_definition_changed(task_def, cached_state)
            THEN TaskStatus(name, TRUE, "definition_changed", {}, <<>>)
            ELSE IF input_changes # {}
            THEN TaskStatus(name, TRUE, "inputs_changed", input_changes, <<>>)
            ELSE IF MissingOutputs(fs, task_def) # {}
            THEN TaskStatus(name, TRUE, "outputs_missing",
                            {task_def.outputs[FirstMissing(fs, task_def)]}, <<>>)
            ELSE IF \E d \in DOMAIN dep_statuses : dep_statuses[d].will_run
            THEN TaskStatus(name, TRUE, "dependency_triggered", {}, <<>>)
            ELSE IF task_def.inputs = <<>> /\ task_def.outputs = <<>>
            THEN TaskStatus(name, TRUE, "no_outputs", {}, <<>>)
            ELSE TaskStatus(name, FALSE, "fresh", {}, <<cached_state.last_run>>)

-----------------------------------------------------------------------------
(* executor.py: _update_task_state, after the command has exited 0.        *)

(* A variant that stores the entry without the input files' times.        *)
_update_task_state_NoInputState(fsx, now, task_def, args) ==
    LET cache_key == CacheKey(task_def, args)
        new == [last_run |-> now \div TicksPerSecond, input_state |-> <<>>]
    IN  [k \in DOMAIN state \cup {cache_key} |->
            IF k = cache_key THEN new ELSE state[k]]

(* A variant that stores the entry under the definition hash alone.       *)
_update_task_state_KeyWithoutArgs(fsx, now, task_def, args) ==
    LET cache_key == _get_task_hash(task_def)
        all_inputs == _get_all_input_files(fsx, task_def)
        input_state == [f \in {g \in all_inputs : fsx[g].exists} |-> int_mtime(fsx, f)]
        new == [last_run |-> now \div TicksPerSecond, input_state |-> input_state]
    IN  [k \in DOMAIN state \cup {cache_key} |->
            IF k = cache_key THEN new ELSE state[k]]

(* A variant that adds the files' times to those of the earlier entry.    *)
(* The store that _update_task_state leaves in the StateManager st.          *)
state_set(st, fsx, now, task_def, args) ==
    LET cache_key == CacheKey(task_def, args)
        all_inputs == _get_all_input_files(fsx, task_def)
        input_state == [f \in {g \in all_inputs : fsx[g].exists} |-> int_mtime(fsx, f)]
        new == [last_run |-> now \div TicksPerSecond, input_state |-> input_state]
    IN  [k \in DOMAIN st \cup {cache_key} |->
            IF k = cache_key THEN new ELSE st[k]]

_update_task_state_KeepsOldKeys(fsx, now, task_def, args) ==
    LET cache_key == CacheKey(task_def, args)
        all_inputs == _get_all_input_files(fsx, task_def)
        old == IF cache_key \in DOMAIN state THEN state[cache_key].input_state
               ELSE <<>>
        input_state == [f \in {g \in all_inputs : fsx[g].exists} \cup DOMAIN old |->
                            IF f \in all_inputs /\ fsx[f].exists
                            THEN int_mtime(fsx, f) ELSE old[f]]
        new == [last_run |-> now \div TicksPerSecond, input_state |-> input_state]
    IN  [k \in DOMAIN state \cup {cache_key} |->
            IF k = cache_key THEN new ELSE state[k]]

_update_task_state(fsx, now, task_def, args) ==
    state_set(state, fsx, now, task_def, args)

-----------------------------------------------------------------------------
(* tasks.py: _get_task_and_dependencies, a depth-first post-order walk.    *)

RECURSIVE visit(_, _, _)
RECURSIVE visit_deps(_, _, _, _)

(* A variant of visit that leaves the dependencies out.                    *)
visit_NoDeps(tk, name, st) ==
    [st EXCEPT !.visited = @ \cup {name}, !.result = Append(@, name)]

visit_deps(tk, deps, i, st) ==
    IF i > Len(deps) \/ st.error THEN st
    ELSE visit_deps(tk, deps, i + 1, visit(tk, deps[i], st))

visit(tk, name, st) ==
    IF name \in st.visited THEN st
    ELSE LET st1 == [st EXCEPT !.visited = @ \cup {name}]
         IN  IF name \notin DOMAIN tk THEN [st1 EXCEPT !.error = TRUE]
             ELSE LET st2 == visit_deps(tk, tk[name].deps, 1, st1)
                  IN  IF st2.error THEN st2
                      ELSE [st2 EXCEPT !.result = Append(@, name)]

(* A variant that goes on when a name is not a task.                       *)
_get_task_and_dependencies_NoError(task_name, tk) ==
    [visit(tk, task_name, [visited |-> {}, result |-> <<>>, error |-> FALSE])
        EXCEPT !.error = FALSE]

_get_task_and_dependencies(task_name, tk) ==
    visit(tk, task_name, [visited |-> {}, result |-> <<>>, error |-> FALSE])

-----------------------------------------------------------------------------
(* graph.py: get_task_dependencies, a loop over a stack of names to visit. *)
(* The loop is run for at most LoopBound(tk) iterations: each iteration    *)
(* pops one name, and the names pushed are the task and the deps of each   *)
(* name visited, each name visited once.  "terminated" tells whether the   *)
(* stack was empty by then.                                                *)
LoopBound(tk) == 1 + Cardinality(DOMAIN tk) * (MaxDeps + 1)

RECURSIVE get_task_dependencies_loop_NoVisited(_, _, _, _)
RECURSIVE get_task_dependencies_loop(_, _, _, _)

(* A variant that does not skip the names it has visited.                  *)
get_task_dependencies_loop_NoVisited(task_name, tk, st, fuel) ==
    IF st.to_visit = <<>>
    THEN [terminated |-> TRUE, dependencies |-> st.dependencies]
    ELSE IF fuel = 0
    THEN [terminated |-> FALSE, dependencies |-> st.dependencies]
    ELSE LET current == st.to_visit[Len(st.to_visit)]
             rest == SubSeq(st.to_visit, 1, Len(st.to_visit) - 1)
             deps == IF current \in DOMAIN tk THEN tk[current].deps ELSE <<>>
         IN  get_task_dependencies_loop_NoVisited(task_name, tk,
                    [to_visit |-> rest \o deps,
                     visited |-> st.visited \cup {current},
                     dependencies |-> IF current # task_name
                                      THEN st.dependencies \cup {current}
                                      ELSE st.dependencies],
                    fuel - 1)

get_task_dependencies_loop(task_name, tk, st, fuel) ==
    IF st.to_visit = <<>>
    THEN [terminated |-> TRUE, dependencies |-> st.dependencies]
    ELSE IF fuel = 0
    THEN [terminated |-> FALSE, dependencies |-> st.dependencies]
    ELSE LET current == st.to_visit[Len(st.to_visit)]
             rest == SubSeq(st.to_visit, 1, Len(st.to_visit) - 1)
             deps == IF current \in DOMAIN tk THEN tk[current].deps ELSE <<>>
         IN  IF current \in st.visited
             THEN get_task_dependencies_loop(task_name, tk,
                        [st EXCEPT !.to_visit = rest], fuel - 1)
             ELSE get_task_dependencies_loop(task_name, tk,
                        [to_visit |-> rest \o deps,
                         visited |-> st.visited \cup {current},
                         dependencies |-> IF current # task_name
                                          THEN st.dependencies \cup {current}
                                          ELSE st.dependencies],
                        fuel - 1)

get_task_dependencies(task_name, tk) ==
    IF task_name \notin DOMAIN tk
    THEN [terminated |-> TRUE, dependencies |-> {}]
    ELSE get_task_dependencies_loop(task_name, tk,
            [to_visit |-> <<task_name>>, visited |-> {}, dependencies |-> {}],
            LoopBound(tk))

-----------------------------------------------------------------------------
(* graph.py: resolve_dependencies.  graphlib.TopologicalSorter.static_order *)
(* emits the ready nodes group by group; a node becomes ready when the     *)
(* last of its predecessors is marked done.  names is the key order of     *)
(* the task map that is passed in.                                         *)

Preds(tk, n) == IF n \in DOMAIN tk THEN Range(tk[n].deps) ELSE {}

RECURSIVE NodeOrder(_, _, _, _)
NodeOrder(tk, names, i, acc) ==
    IF i > Len(names) THEN acc
    ELSE LET n == names[i]
             a1 == IF n \in Range(acc) THEN acc ELSE Append(acc, n)
             ds == IF n \in DOMAIN tk THEN tk[n].deps ELSE <<>>
             new == SelectSeq(ds, LAMBDA d : d \notin Range(a1))
             RECURSIVE Dedup(_, _)
             Dedup(s, a) == IF s = <<>> THEN a
                            ELSE Dedup(Tail(s), IF Head(s) \in Range(a) THEN a
                                                ELSE Append(a, Head(s)))
         IN  NodeOrder(tk, names, i + 1, Dedup(new, a1))

Successors(tk, nodes, n) == SelectSeq(nodes, LAMBDA m : n \in Preds(tk, m))

(* A variant that makes a successor ready each time one of its            *)
(* predecessors is done.                                                   *)
RECURSIVE MarkDone_EveryEdge(_, _, _, _)
MarkDone_EveryEdge(succs, j, cnt, ready) ==
    IF j > Len(succs) THEN [cnt |-> cnt, ready |-> ready]
    ELSE LET s == succs[j]
             c == cnt[s] - 1
         IN  MarkDone_EveryEdge(succs, j + 1, [cnt EXCEPT ![s] = c],
                                Append(ready, s))

RECURSIVE MarkDone(_, _, _, _)
MarkDone(succs, j, cnt, ready) ==
    IF j > Len(succs) THEN [cnt |-> cnt, ready |-> ready]
    ELSE LET s == succs[j]
             c == cnt[s] - 1
         IN  MarkDone(succs, j + 1, [cnt EXCEPT ![s] = c],
                      IF c = 0 THEN Append(ready, s) ELSE ready)

RECURSIVE DoneGroup(_, _, _, _, _, _)
DoneGroup(tk, nodes, group, i, cnt, ready) ==
    IF i > Len(group) THEN [cnt |-> cnt, ready |-> ready]
    ELSE LET r == MarkDone(Successors(tk, nodes, group[i]), 1, cnt, ready)
         IN  DoneGroup(tk, nodes, group, i + 1, r.cnt, r.ready)

RECURSIVE static_order(_, _, _, _, _)
static_order(tk, nodes, ready, cnt, out) ==
    IF ready = <<>> THEN out
    ELSE LET r == DoneGroup(tk, nodes, ready, 1, cnt, <<>>)
         IN  static_order(tk, nodes, r.ready, r.cnt, out \o ready)

(* TopologicalSorter.prepare looks for a cycle before anything is         *)
(* emitted: a depth-first walk along the successor lists, from each node   *)
(* in turn, that stops at the first node met again while it is still on    *)
(* the walk's stack and hands back that part of the stack.                 *)
IndexOf(s, x) == CHOOSE i \in DOMAIN s : s[i] = x

RECURSIVE _find_cycle_walk(_, _, _, _, _)
RECURSIVE _find_cycle_each(_, _, _, _, _, _)

_find_cycle_each(tk, names, succs, j, stack, seen_nodes) ==
    IF j > Len(succs) THEN [cycle |-> <<>>, seen_nodes |-> seen_nodes]
    ELSE LET r == _find_cycle_walk(tk, names, succs[j], stack, seen_nodes)
         IN  IF r.cycle # <<>> THEN r
             ELSE _find_cycle_each(tk, names, succs, j + 1, stack, r.seen_nodes)

_find_cycle_walk(tk, names, node, stack, seen_nodes) ==
    IF node \in seen_nodes
    THEN [cycle |-> IF node \in Range(stack)
                    THEN Append(SubSeq(stack, IndexOf(stack, node), Len(stack)), node)
                    ELSE <<>>,
          seen_nodes |-> seen_nodes]
    ELSE _find_cycle_each(tk, names, Successors(tk, names, node), 1,
                          Append(stack, node), seen_nodes \cup {node})

(* A variant that finds no cycle.                                          *)
_find_cycle_Never(tk, names, nodes) == <<>>

_find_cycle(tk, names, nodes) ==
    _find_cycle_each(tk, names, nodes, 1, <<>>, {}).cycle

(* A variant that takes the key order for the execution order.            *)
resolve_dependencies_KeyOrder(tk, names) ==
    [ok |-> TRUE, order |-> SelectSeq(names, LAMBDA n : n \in DOMAIN tk),
     cycle |-> <<>>]

resolve_dependencies(tk, names) ==
    LET nodes == NodeOrder(tk, names, 1, <<>>)
        cnt == [n \in Range(nodes) |-> Cardinality(Preds(tk, n))]
        ready == SelectSeq(nodes, LAMBDA n : cnt[n] = 0)
        cycle == _find_cycle(tk, names, nodes)
    IN  IF cycle # <<>>
        THEN [ok |-> FALSE, order |-> <<>>, cycle |-> cycle]
        ELSE [ok |-> TRUE, order |-> static_order(tk, names, ready, cnt, <<>>),
              cycle |-> <<>>]

-----------------------------------------------------------------------------
(* graph.py: validate_dependencies.  names is the key order of the task    *)
(* map; the error message has one line per missing dependency.             *)

RECURSIVE validate_dependencies_from(_, _, _, _, _)
validate_dependencies_from(tk, names, i, j, missing_deps) ==
    IF i > Len(names) THEN missing_deps
    ELSE IF j > Len(tk[names[i]].deps)
    THEN validate_dependencies_from(tk, names, i + 1, 1, missing_deps)
    ELSE LET dep == tk[names[i]].deps[j]
         IN  validate_dependencies_from(tk, names, i, j + 1,
                 IF dep \notin DOMAIN tk
                 THEN Append(missing_deps, <<names[i], dep>>)
                 ELSE missing_deps)

(* A variant that reports the first missing dependency only.              *)
validate_dependencies_FirstOnly(tk, names) ==
    LET missing_deps == validate_dependencies_from(tk, names, 1, 1, <<>>)
    IN  [raised |-> missing_deps # <<>>,
         missing_deps |-> IF missing_deps = <<>> THEN <<>>
                          ELSE <<Head(missing_deps)>>]

validate_dependencies(tk, names) ==
    LET missing_deps == validate_dependencies_from(tk, names, 1, 1, <<>>)
    IN  [raised |-> missing_deps # <<>>, missing_deps |-> missing_deps]

-----------------------------------------------------------------------------
(* executor.py: execute_task.  The command is spawned through the shell;   *)
(* what it does to the project directory is its own business: it touches   *)
(* some of the files it can write and exits with some code, or the spawn   *)
(* itself raises.                                                          *)

NoDeps == <<>>

(* A command line is a sequence of pieces, each plain text or a pair of    *)
(* double braces with the text between them.  _prepare_command replaces    *)
(* "{{" + arg_name + "}}", i.e. the pieces whose inner text is exactly the *)
(* name of a given argument, by str(value) and leaves the others standing, *)
(* one argument after the other in the order of the dict: str.replace      *)
(* works on the text as the replacements before it have left it.           *)
CmdPieces(cmd) ==
    CASE cmd = "link {{mode}}" ->
            <<[text |-> "link "], [placeholder |-> "mode"]>>
      [] cmd = "{{a}}-{{b}}" ->
            <<[placeholder |-> "a"], [text |-> "-"], [placeholder |-> "b"]>>
      [] cmd = "{{a}}" -> <<[placeholder |-> "a"]>>
      [] cmd = "{{b}}" -> <<[placeholder |-> "b"]>>
      [] cmd = "{{ var.a }}-{{ arg.b }}" ->
            <<[placeholder |-> " var.a "], [text |-> "-"],
              [placeholder |-> " arg.b "]>>
      [] OTHER -> <<[text |-> cmd]>>

RECURSIVE str_replace(_, _, _)
RECURSIVE replace_each(_, _, _)

(* result.replace(placeholder, str(arg_value)): the text of the value      *)
(* takes the place of every piece that is this placeholder.                *)
str_replace(pieces, arg_name, arg_value) ==
    IF pieces = <<>> THEN <<>>
    ELSE LET piece == Head(pieces)
         IN  (IF "placeholder" \in DOMAIN piece /\ piece.placeholder = arg_name
              THEN CmdPieces(arg_value) ELSE <<piece>>)
             \o str_replace(Tail(pieces), arg_name, arg_value)

replace_each(pieces, args, i) ==
    IF i > Len(args) THEN pieces
    ELSE replace_each(str_replace(pieces, args[i][1], args[i][2]), args, i + 1)

(* executor.py 243-254; args is the dict as the sequence of its items.     *)
_prepare_command(cmd, args) ==
    IF args = None \/ args = <<>> THEN CmdPieces(cmd)
    ELSE replace_each(CmdPieces(cmd), args, 1)

(* state.py: the file holds to_dict of every entry; load reads it back.    *)
to_dict(task_state) ==
    [last_run |-> task_state.last_run, input_state |-> task_state.input_state]

from_dict(data) ==
    [last_run |-> data.last_run, input_state |-> data.input_state]

save(st) == [k \in DOMAIN st |-> to_dict(st[k])]

(* The file as save leaves it between open(..., 'w'), which truncates it,  *)
(* and the end of the with block, which flushes what json.dump wrote: not  *)
(* JSON that load can read.                                                *)
Unreadable ==
    [k \in {<<[truncated |-> TRUE]>>} |-> [truncated |-> TRUE]]

(* What else can be in the place of the file: nothing ("missing"),         *)
(* something open() refuses ("unreadable": a directory, no permission),    *)
(* bytes that are not UTF-8 ("not_utf8"), text that is not JSON            *)
(* ("invalid_json"), JSON that is not an object ("not_an_object": a list,  *)
(* a number, a string, null).                                              *)
NotAStore(kind) ==
    [k \in {<<[file |-> kind]>>} |-> [file |-> kind]]

FileKind(file) ==
    IF file = Unreadable THEN "invalid_json"
    ELSE IF \E k \in DOMAIN file : "file" \in DOMAIN k[1]
    THEN file[CHOOSE k \in DOMAIN file : "file" \in DOMAIN k[1]].file
    ELSE "object"

(* A member of the file's object that is not itself an object (a number,   *)
(* a string, a list, null), and the exception from_dict ends with for a    *)
(* member: subscripting a non-object is a TypeError, a missing key a       *)
(* KeyError.                                                               *)
NotAnObject == [json |-> "not_an_object"]

from_dict_error(data) ==
    IF "json" \in DOMAIN data THEN "TypeError"
    ELSE IF ~({"last_run", "input_state"} \subseteq DOMAIN data) THEN "KeyError"
    ELSE ""

(* state.py 44-59.  A missing file, JSONDecodeError and KeyError give an   *)
(* empty store; every other exception leaves load.  The members are        *)
(* visited in the file's order and the first ill-formed one decides; the   *)
(* model fixes one of them.                                                *)
load(file) ==
    LET kind == FileKind(file)
        bad == IF kind = "object"
               THEN {k \in DOMAIN file : from_dict_error(file[k]) # ""}
               ELSE {}
    IN  CASE kind = "missing" ->
                [raised |-> FALSE, exception |-> "", _state |-> <<>>]
          [] kind = "unreadable" ->
                [raised |-> TRUE, exception |-> "OSError", _state |-> <<>>]
          [] kind = "not_utf8" ->
                [raised |-> TRUE, exception |-> "UnicodeDecodeError", _state |-> <<>>]
          [] kind = "invalid_json" ->
                [raised |-> FALSE, exception |-> "", _state |-> <<>>]
          [] kind = "not_an_object" ->
                [raised |-> TRUE, exception |-> "AttributeError", _state |-> <<>>]
          [] kind = "object" /\ bad = {} ->
                [raised |-> FALSE, exception |-> "",
                 _state |-> [k \in DOMAIN file |-> from_dict(file[k])]]
          [] OTHER ->
                LET first == from_dict_error(file[CHOOSE k \in bad : TRUE])
                IN  IF first = "KeyError"
                    THEN [raised |-> FALSE, exception |-> "", _state |-> <<>>]
                    ELSE [raised |-> TRUE, exception |-> first, _state |-> <<>>]

(* cache_key.split("__")[0]                                                *)
TaskHashOf(cache_key) ==
    LET seps == {i \in DOMAIN cache_key : cache_key[i] = Sep}
    IN  IF seps = {} THEN cache_key
        ELSE SubSeq(cache_key, 1, (CHOOSE i \in seps : \A j \in seps : i <= j) - 1)

(* A variant that looks the whole cache key up in the valid hashes.       *)
prune_invalid_entries_WholeKey(st, valid_task_hashes) ==
    LET removed_keys == {c \in DOMAIN st : c \notin valid_task_hashes}
    IN  [_state |-> [k \in DOMAIN st \ removed_keys |-> st[k]],
         removed_keys |-> removed_keys]

prune_invalid_entries_Nothing(st, valid_task_hashes) ==
    LET removed_keys == {c \in DOMAIN st : /\ TaskHashOf(c) \notin valid_task_hashes
                                           /\ TaskHashOf(c) \in valid_task_hashes}
    IN  [_state |-> [k \in DOMAIN st \ removed_keys |-> st[k]],
         removed_keys |-> removed_keys]

(* The store after the call and the keys the call returns (a list, here    *)
(* the set of its elements).                                               *)
prune_invalid_entries(st, valid_task_hashes) ==
    LET removed_keys == {c \in DOMAIN st : TaskHashOf(c) \notin valid_task_hashes}
    IN  [_state |-> [k \in DOMAIN st \ removed_keys |-> st[k]],
         removed_keys |-> removed_keys]

Touch(fsx, W, now) ==
    [f \in Files |-> IF f \in W THEN [exists |-> TRUE, mtime |-> now] ELSE fsx[f]]

InputCandidates(task_def) ==
    UNION {Matches(task_def.inputs[i]) : i \in DOMAIN task_def.inputs}

Dirtied(W) == {t \in DOMAIN tasks : W \cap InputCandidates(tasks[t]) # {}}

OutputsExist(fsx, task_def) == MissingOutputs(fsx, task_def) = {}

(* History: the files a task depends on, declared or not, and what is     *)
(* remembered of the project when its entry is recorded.                   *)
DepOutputs(t) ==
    UNION {Range(tasks[d].outputs) \cap Files : d \in Range(tasks[t].deps)}

Snapshot(t, fsx) ==
    [task |-> t, definition |-> tasks[t],
     fs |-> [f \in InputCandidates(tasks[t]) \cup DepOutputs(t) |-> fsx[f]],
     environment |-> IF tasks[t].env \in DOMAIN environments
                     THEN <<environments[tasks[t].env]>> ELSE <<>>]

(* A variant that records the task whatever the command's exit code.      *)
execute_task_AlwaysRecords(t, args, W, returncode) ==
    /\ fs' = Touch(fs, W, clock)
    /\ state' = _update_task_state(fs', clock, tasks[t], args)
    /\ state_file' = save(state')
    /\ dirty' = (dirty \cup Dirtied(W)) \ {t}
    /\ seen' = (CacheKey(tasks[t], args) :> Snapshot(t, fs')) @@ seen

(* The command ran and touched the files W; returncode is its exit code.   *)
execute_task(t, args, W, returncode) ==
    /\ fs' = Touch(fs, W, clock)
    /\ IF returncode = 0
       THEN /\ state' = _update_task_state(fs', clock, tasks[t], args)
            /\ state_file' = save(state')
            /\ dirty' = (dirty \cup Dirtied(W)) \ {t}
            /\ seen' = (CacheKey(tasks[t], args) :> Snapshot(t, fs')) @@ seen
       ELSE /\ UNCHANGED <<state, state_file, seen>>
            /\ dirty' = dirty \cup Dirtied(W)

(* executor.py 150-163: the working directory and the one call of         *)
(* subprocess.run.  A path is the sequence of its components.              *)
project_root == <<"project_root">>

strip(s) == IF s = "  " THEN "" ELSE s

working_dir(task_def) ==
    IF task_def.working_dir # "" /\ strip(task_def.working_dir) # ""
    THEN Append(project_root, task_def.working_dir)
    ELSE project_root

(* A variant that always runs the command in the project root.            *)
subprocess_run_InRoot(task_def, args) ==
    [cmd |-> _prepare_command(task_def.cmd, dict_items(args)), shell |-> TRUE,
     cwd |-> project_root, capture_output |-> FALSE]

subprocess_run(task_def, args) ==
    [cmd |-> _prepare_command(task_def.cmd, dict_items(args)), shell |-> TRUE,
     cwd |-> working_dir(task_def), capture_output |-> FALSE]

NoCheck ==
    [called |-> FALSE, task |-> "", args |-> NoArgs, dep_statuses |-> NoDeps,
     result |-> TaskStatus("", FALSE, "", {}, <<>>)]

NoRet == [call |-> ""]

(* The exit code of a failing command, and what execute_task returns when  *)
(* the command could not be spawned.                                       *)
FailCode == 2
SpawnErrorCode == 1

NoRun ==
    [task_name |-> "", args |-> NoArgs, order |-> <<>>, i |-> 1,
     statuses |-> <<>>, executed |-> <<>>, exit_code |-> 0, done |-> FALSE,
     all_executed |-> FALSE, second |-> FALSE,
     clean |-> {}, dep_changed |-> {}, dep_quiet |-> {}, fresh_at_start |-> {},
     had |-> {}, written |-> {}, commands |-> <<>>, codes |-> <<>>,
     log |-> <<>>, edited |-> {}, checked |-> <<>>]

Init ==
    /\ tasks = Recipe
    /\ environments = [n \in {"test"} |-> [shell |-> "/bin/bash"]]
    /\ fs = [f \in Files |-> IF f = "src" THEN [exists |-> TRUE, mtime |-> 0]
                                          ELSE NoFile]
    /\ clock = 0
    /\ state = <<>>
    /\ state_file = <<>>
    /\ pc = "idle"
    /\ run = NoRun
    /\ changed = FALSE
    /\ dirty = {}
    /\ last_check = NoCheck
    /\ seen = <<>>
    /\ nruns = 0
    /\ nedits = 0
    /\ ret = NoRet

-----------------------------------------------------------------------------
(* tasks.py: execute_task, the closure run.                                *)

(* The arguments tasks.execute_task hands to the executor for a task.      *)
ArgsFor_Everywhere(current_task_name) == run.args

ArgsFor(current_task_name) ==
    IF current_task_name = run.task_name THEN run.args ELSE NoArgs

(* The dependency statuses tasks.execute_task hands to check_task_status.  *)
DepStatusesFor(current_task_name) == NoDeps

Current == run.order[run.i]

StatusOfCurrent ==
    check_task_status(Current, tasks[Current], ArgsFor(Current),
                      DepStatusesFor(Current))

(* History kept with the run, for the properties below: the dependencies   *)
(* of t that have executed in this run, and whether an output of one of    *)
(* them is newer (in whole seconds) than it was when t's entry was         *)
(* recorded.                                                               *)
DepsRan(t) == Range(tasks[t].deps) \cap Range(run.executed)

OutputAdvanced(t, d) ==
    LET was == seen[CacheKey(tasks[t], ArgsFor(t))].fs
    IN  \E i \in DOMAIN tasks[d].outputs :
            LET o == tasks[d].outputs[i]
            IN  /\ o \in Files
                /\ fs[o].exists
                /\ ~was[o].exists \/ int_mtime(fs, o) > int_mtime(was, o)

HasState(t) == CacheKey(tasks[t], ArgsFor(t)) \in DOMAIN state

DepChanged(t) == HasState(t) /\ \E d \in DepsRan(t) : OutputAdvanced(t, d)

DepQuiet(t) ==
    /\ HasState(t)
    /\ DepsRan(t) # {}
    /\ \A d \in DepsRan(t) : ~OutputAdvanced(t, d)

(* Up to the loop: the closure and its order.                              *)
StartRun(task_name, args) ==
    /\ pc = "idle" /\ ret = NoRet
    /\ nruns + nedits < MaxEvents
    /\ nruns' = nruns + 1
    /\ task_name \in DOMAIN tasks
    /\ LET task_deps == _get_task_and_dependencies(task_name, tasks)
           execution_order == resolve_dependencies(tasks, task_deps.result)
       IN  /\ ~task_deps.error
           /\ execution_order.ok
           /\ run' = [task_name |-> task_name, args |-> args,
                      order |-> execution_order.order, i |-> 1,
                      statuses |-> <<>>, executed |-> <<>>, exit_code |-> 0,
                      done |-> FALSE, all_executed |-> TRUE,
                      clean |-> {}, dep_changed |-> {}, dep_quiet |-> {},
                      had |-> DOMAIN state, written |-> {},
                      commands |-> <<>>, codes |-> <<>>,
                      fresh_at_start |->
                          {t \in Range(execution_order.order) :
                              ~check_task_status(t, tasks[t],
                                   IF t = task_name THEN args ELSE NoArgs,
                                   NoDeps).will_run},
                      second |-> /\ run.done
                                 /\ run.all_executed
                                 /\ ~changed
                                 /\ run.task_name = task_name
                                 /\ run.args = args,
                      log |-> <<>>, edited |-> {}, checked |-> <<>>]
    /\ pc' = "running"
    /\ UNCHANGED <<tasks, environments, fs, clock, state, state_file, changed, dirty,
                   last_check, seen, nedits, ret>>

(* The loop ends with the last task of the order, or at once when a task   *)
(* has returned a non-zero code.                                           *)
RunEnds_LastTaskOnly(rc) == run.i = Len(run.order)

RunEnds(rc) == rc # 0 \/ run.i = Len(run.order)

(* One iteration of the loop; rc is what the iteration leaves as the       *)
(* run's result when it is the last one.                                   *)
Advance(status, ran, rc, all_ok) ==
    LET last == RunEnds(rc)
    IN  /\ run' = [run EXCEPT
                    !.written = @ \cup {k \in DOMAIN state' :
                                    k \notin DOMAIN state \/ state'[k] # state[k]},
                    !.commands = IF ran
                                 THEN Append(@, _prepare_command(tasks[Current].cmd,
                                                    dict_items(ArgsFor(Current))))
                                 ELSE @,
                    !.codes = IF ran THEN Append(@, rc) ELSE @,
                    !.statuses = (Current :> status) @@ @,
                    !.executed = IF ran THEN Append(@, Current) ELSE @,
                    !.checked = Append(@, Current),
                    !.exit_code = rc,
                    !.i = IF last THEN @ ELSE @ + 1,
                    !.done = last,
                    !.all_executed = @ /\ all_ok,
                    !.clean = IF Current \in dirty THEN @ ELSE @ \cup {Current},
                    !.dep_changed = IF DepChanged(Current)
                                    THEN @ \cup {Current} ELSE @,
                    !.dep_quiet = IF DepQuiet(Current)
                                  THEN @ \cup {Current} ELSE @]
        /\ UNCHANGED <<tasks, environments, clock, pc, changed, last_check,
                       nruns, nedits, ret>>

RunSkip ==
    /\ pc = "running" /\ ~run.done
    /\ ~StatusOfCurrent.will_run
    /\ UNCHANGED <<fs, state, state_file, dirty, seen>>
    /\ Advance(StatusOfCurrent, FALSE, 0, FALSE)

RunExecOk ==
    /\ pc = "running" /\ ~run.done
    /\ StatusOfCurrent.will_run
    /\ \E W \in SUBSET Writes(tasks[Current].cmd) :
        /\ execute_task(Current, ArgsFor(Current), W, 0)
        /\ Advance(StatusOfCurrent, TRUE, 0, OutputsExist(fs', tasks[Current]))

RunExecFail ==
    /\ pc = "running" /\ ~run.done
    /\ StatusOfCurrent.will_run
    /\ \E W \in SUBSET Writes(tasks[Current].cmd) :
        /\ execute_task(Current, ArgsFor(Current), W, FailCode)
        /\ Advance(StatusOfCurrent, TRUE, FailCode, FALSE)

RunSpawnError ==
    /\ pc = "running" /\ ~run.done
    /\ StatusOfCurrent.will_run
    /\ UNCHANGED <<fs, state, state_file, dirty, seen>>
    /\ Advance(StatusOfCurrent, TRUE, SpawnErrorCode, FALSE)

(* tasks.execute_task returns.  Of the run, the record keeps what the      *)
(* history of the next run is computed from.                               *)
RunReturn ==
    /\ pc = "running" /\ run.done
    /\ pc' = "idle"
    /\ run' = [run EXCEPT !.order = <<>>, !.i = 1, !.statuses = <<>>,
                          !.executed = <<>>, !.clean = {}, !.dep_changed = {},
                          !.dep_quiet = {}, !.fresh_at_start = {},
                          !.had = {}, !.written = {}, !.commands = <<>>,
                          !.codes = <<>>, !.exit_code = 0, !.checked = <<>>]
    /\ changed' = FALSE
    /\ UNCHANGED <<tasks, environments, fs, clock, state, state_file, dirty,
                   last_check, seen, nruns, nedits, ret>>

-----------------------------------------------------------------------------
(* What happens around the calls.                                          *)

Tick ==
    /\ clock < MaxClock /\ ~last_check.called /\ ret = NoRet
    /\ clock' = clock + 1
    /\ UNCHANGED <<tasks, environments, fs, state, state_file, pc, run, changed, dirty,
                   last_check, seen, nruns, nedits, ret>>

Edit ==
    /\ pc = "idle" /\ ~last_check.called /\ ret = NoRet
    /\ nruns + nedits < MaxEvents
    /\ nedits' = nedits + 1
    /\ changed' = TRUE
    /\ UNCHANGED <<tasks, clock, pc, run, last_check, nruns, ret>>

TouchFile(f) ==
    /\ Edit
    /\ fs' = Touch(fs, {f}, clock)
    /\ fs' # fs
    /\ dirty' = dirty \cup Dirtied({f})
    /\ UNCHANGED <<environments, state, state_file, seen>>

DeleteFile(f) ==
    /\ Edit
    /\ fs[f].exists
    /\ fs' = [fs EXCEPT ![f] = NoFile]
    /\ UNCHANGED <<environments, state, state_file, dirty, seen>>

EditEnvironment(name, shell) ==
    /\ Edit
    /\ environments[name].shell # shell
    /\ environments' = [environments EXCEPT ![name].shell = shell]
    /\ UNCHANGED <<fs, state, state_file, dirty, seen>>

(* state.py: StateManager.clear.                                           *)
Clear ==
    /\ Edit
    /\ state # <<>> \/ state_file # <<>>
    /\ state' = <<>>
    /\ state_file' = <<>>
    /\ seen' = <<>>
    /\ UNCHANGED <<environments, fs, dirty>>

Next ==
    \/ \E t \in TaskNames : \E args \in ArgsOf(t) : StartRun(t, args)
    \/ RunSkip
    \/ RunExecOk
    \/ RunExecFail
    \/ RunSpawnError
    \/ RunReturn
    \/ Tick
    \/ TouchFile("src")
    \/ Clear

Spec == Init /\ [][Next]_vars

-----------------------------------------------------------------------------
(* The TaskExecutor used directly, one call at a time, as cli.py's         *)
(* execute_task_command and a status report do.                            *)

(* What TaskExecutor.execute_task hands back and what it did: the calls of *)
(* subprocess.run it made, its return value, the exit code of the command  *)
(* when one was spawned, whether the call left the store and its file as   *)
(* they were, the keys of the store whose entry it added or changed, and   *)
(* the files the task's earlier entry held a time for and the new one      *)
(* does not.                                                               *)
Returned(t, args, value, exited) ==
    [call |-> "execute_task", task |-> t, args |-> args,
     spawned |-> <<subprocess_run(tasks[t], args)>>,
     value |-> value, exited |-> exited,
     store_unchanged |-> (state' = state /\ state_file' = state_file),
     changed_keys |-> {k \in DOMAIN state \cup DOMAIN state' :
                         \/ k \notin DOMAIN state
                         \/ k \notin DOMAIN state'
                         \/ state'[k] # state[k]},
     dropped_inputs |->
        LET cache_key == CacheKey(tasks[t], args)
        IN  IF cache_key \in DOMAIN state /\ cache_key \in DOMAIN state'
            THEN DOMAIN state[cache_key].input_state
                    \ DOMAIN state'[cache_key].input_state
            ELSE {}]

Call ==
    /\ pc = "idle" /\ ~last_check.called /\ ret = NoRet
    /\ nruns + nedits < MaxEvents
    /\ nruns' = nruns + 1
    /\ UNCHANGED <<tasks, environments, clock, pc, run, changed, last_check, nedits>>

ExecuteOk(t, args) ==
    /\ Call
    /\ \E W \in SUBSET Writes(tasks[t].cmd) : execute_task(t, args, W, 0)
    /\ ret' = Returned(t, args, 0, <<0>>)

ExecuteFail(t, args) ==
    /\ Call
    /\ \E W \in SUBSET Writes(tasks[t].cmd) : execute_task(t, args, W, FailCode)
    /\ ret' = Returned(t, args, FailCode, <<FailCode>>)

ExecuteSpawnError(t, args) ==
    /\ Call
    /\ UNCHANGED <<fs, state, state_file, dirty, seen>>
    /\ ret' = Returned(t, args, SpawnErrorCode, <<>>)

(* The caller has taken the result of the call.                            *)
Return ==
    /\ ret # NoRet
    /\ ret' = NoRet
    /\ UNCHANGED <<tasks, environments, fs, clock, state, state_file, pc, run,
                   changed, dirty, last_check, seen, nruns, nedits>>

(* A call of check_task_status with the statuses of the task's             *)
(* dependencies, or with none.                                             *)
DepStatusChoices(t) ==
    {NoDeps} \cup
    IF tasks[t].deps = <<>> THEN {}
    ELSE {[d \in Range(tasks[t].deps) |-> TaskStatus(d, w, r, {}, <<>>)] :
            <<w, r>> \in {<<TRUE, "never_run">>, <<FALSE, "fresh">>}}

CheckStatus(t, args, dep_statuses) ==
    /\ pc = "idle"
    /\ ~last_check.called /\ ret = NoRet
    /\ last_check' = [called |-> TRUE, task |-> t, args |-> args,
                      dep_statuses |-> dep_statuses,
                      result |-> check_task_status(t, tasks[t], args, dep_statuses)]
    /\ UNCHANGED <<tasks, environments, fs, clock, state, state_file, pc, run,
                   changed, dirty, seen, nruns, nedits, ret>>

(* The caller has read the status.                                         *)
CheckReturn ==
    /\ last_check.called
    /\ last_check' = NoCheck
    /\ UNCHANGED <<tasks, environments, fs, clock, state, state_file, pc, run,
                   changed, dirty, seen, nruns, nedits, ret>>

NextExecutor ==
    \/ \E t \in TaskNames : \E args \in ArgsOf(t) : ExecuteOk(t, args)
    \/ \E t \in TaskNames : \E args \in ArgsOf(t) : ExecuteFail(t, args)
    \/ \E t \in TaskNames : \E args \in ArgsOf(t) : ExecuteSpawnError(t, args)
    \/ \E t \in TaskNames : \E args \in ArgsOf(t) :
          \E ds \in DepStatusChoices(t) : CheckStatus(t, args, ds)
    \/ CheckReturn
    \/ Return
    \/ Tick
    \/ TouchFile("src")
    \/ \E f \in Files : DeleteFile(f)
    \/ \E s \in Shells : EditEnvironment("test", s)
    \/ Clear

SpecExecutor == Init /\ [][NextExecutor]_vars

-----------------------------------------------------------------------------
(* The executor called with commands that hold placeholders, with several  *)
(* argument values for one task and with working directories: C takes an   *)
(* argument mode, S is written with the scoped placeholders and runs in    *)
(* the directory sub, W has a blank working_dir.                           *)

RecipeCommands ==
    [n \in {"C", "S", "W"} |->
        CASE n = "C" -> TaskDef("link {{mode}}", <<>>, <<"*.o">>, <<>>, "")
          [] n = "S" -> [TaskDef("{{ var.a }}-{{ arg.b }}", <<>>, <<"src">>, <<>>, "")
                            EXCEPT !.working_dir = "sub"]
          [] n = "W" -> [TaskDef("compile", <<>>, <<"src">>, <<"a.o">>, "")
                            EXCEPT !.working_dir = "  "]]

ArgsOfCommand(t) ==
    CASE t = "C" -> {NoArgs, [mode |-> "dbg"], [mode |-> "rel"]}
      [] t = "S" -> {NoArgs, [b |-> "y"]}
      [] OTHER -> {NoArgs}

InitCommands ==
    /\ tasks = RecipeCommands
    /\ environments = <<>>
    /\ fs = [f \in Files |-> IF f = "src" THEN [exists |-> TRUE, mtime |-> 0]
                                          ELSE NoFile]
    /\ clock = 0
    /\ state = <<>>
    /\ state_file = <<>>
    /\ pc = "idle"
    /\ run = NoRun
    /\ changed = FALSE
    /\ dirty = {}
    /\ last_check = NoCheck
    /\ seen = <<>>
    /\ nruns = 0
    /\ nedits = 0
    /\ ret = NoRet

(* state.py: prune_invalid_entries called on the store as it stands, with  *)
(* the hashes of some of the recipe's tasks as the valid ones.             *)
Prune(valid_task_hashes) ==
    /\ pc = "idle" /\ ret = NoRet
    /\ LET pruned == prune_invalid_entries(state, valid_task_hashes)
       IN  /\ state' = pruned._state
           /\ ret' = [call |-> "prune_invalid_entries",
                      valid_task_hashes |-> valid_task_hashes,
                      before |-> state,
                      removed_keys |-> pruned.removed_keys]
    /\ UNCHANGED <<tasks, environments, fs, clock, state_file, pc, run, changed,
                   dirty, last_check, seen, nruns, nedits>>

NextCommands ==
    \/ \E t \in DOMAIN tasks : \E args \in ArgsOfCommand(t) : ExecuteOk(t, args)
    \/ \E t \in DOMAIN tasks : \E args \in ArgsOfCommand(t) : ExecuteFail(t, args)
    \/ \E t \in DOMAIN tasks : \E args \in ArgsOfCommand(t) :
          ExecuteSpawnError(t, args)
    \/ \E valid \in SUBSET {hash_task_definition(tasks[t]) : t \in DOMAIN tasks} :
          Prune(valid)
    \/ Return
    \/ Tick

SpecCommands == InitCommands /\ [][NextCommands]_vars

-----------------------------------------------------------------------------
(* A recipe under edit: two tasks that differ in their command only, and   *)
(* the changes an author makes to a task's cmd, outputs, working_dir and   *)
(* args between calls of the executor.                                     *)

RecipeTwins ==
    [n \in {"X", "Y"} |->
        IF n = "X" THEN TaskDef("compile", <<>>, <<"src">>, <<"a.o">>, "")
                   ELSE TaskDef("compile -O", <<>>, <<"src">>, <<"a.o">>, "")]

FieldChoices ==
    [cmd |-> {"compile", "compile -O"},
     outputs |-> {<<"a.o">>, <<"a.o", "b.o">>, <<"b.o", "a.o">>},
     working_dir |-> {"", "sub"},
     args |-> {<<>>, <<"mode">>},
     deps |-> {<<>>, <<"Y">>},
     inputs |-> {<<"src">>, <<"src", "a.o">>},
     desc |-> {"", "Compile the source"}]

InitDefinition ==
    /\ tasks = RecipeTwins
    /\ environments = <<>>
    /\ fs = [f \in Files |-> IF f = "src" THEN [exists |-> TRUE, mtime |-> 0]
                                          ELSE NoFile]
    /\ clock = 0
    /\ state = <<>>
    /\ state_file = <<>>
    /\ pc = "idle"
    /\ run = NoRun
    /\ changed = FALSE
    /\ dirty = {}
    /\ last_check = NoCheck
    /\ seen = <<>>
    /\ nruns = 0
    /\ nedits = 0
    /\ ret = NoRet

EditDefinition(t, field, value) ==
    /\ pc = "idle" /\ ~last_check.called /\ ret = NoRet
    /\ nruns + nedits < MaxEvents
    /\ tasks[t][field] # value
    /\ tasks' = [tasks EXCEPT ![t][field] = value]
    /\ nedits' = nedits + 1
    /\ changed' = TRUE
    /\ UNCHANGED <<environments, fs, clock, state, state_file, pc, run, dirty,
                   last_check, seen, nruns, ret>>

NextDefinition ==
    \/ \E t \in DOMAIN tasks : ExecuteOk(t, NoArgs)
    \/ \E t \in DOMAIN tasks : CheckStatus(t, NoArgs, NoDeps)
    \/ CheckReturn
    \/ Return
    \/ \E t \in DOMAIN tasks : \E field \in DOMAIN FieldChoices :
          \E value \in FieldChoices[field] : EditDefinition(t, field, value)

SpecDefinition == InitDefinition /\ [][NextDefinition]_vars

-----------------------------------------------------------------------------
(* check_task_status on a project in which paths cannot be probed.         *)

(* Path.exists() returns False for a broken link and lets the              *)
(* PermissionError of stat through.  check_task_status probes, once there  *)
(* is an entry, every matched input (executor.py 192-202) and then, when   *)
(* no input is changed, the outputs in order up to the first missing one   *)
(* (executor.py 96-99).                                                    *)
check_task_status_raises(task_def, args) ==
    LET cache_key == CacheKey(task_def, args)
    IN  /\ cache_key \in DOMAIN state
        /\ \/ \E f \in _get_all_input_files(fs, task_def) : Kind(fs, f) = "denied"
           \/ /\ _get_input_changes(fs, task_def, state[cache_key]) = {}
              /\ \E i \in DOMAIN task_def.outputs :
                    /\ task_def.outputs[i] \in Files
                    /\ Kind(fs, task_def.outputs[i]) = "denied"
                    /\ \A j \in 1..(i - 1) :
                          /\ task_def.outputs[j] \in Files
                          /\ fs[task_def.outputs[j]].exists

(* The directories of the project: the one that holds src and the one      *)
(* that holds the object files.                                            *)
Directories == {{"src"}, {"a.o", "b.o"}}

Plain == \A f \in Files : Kind(fs, f) = "file"

(* The link replaces the file; its target is missing.                      *)
BreakLink(f) ==
    /\ Edit
    /\ Kind(fs, f) = "file"
    /\ fs' = [fs EXCEPT ![f] = [exists |-> FALSE, mtime |-> 0,
                                kind |-> "broken_symlink"]]
    /\ UNCHANGED <<environments, state, state_file, dirty, seen>>

(* The search permission of a directory is taken away.                     *)
DenyDirectory(D) ==
    /\ Edit
    /\ \A f \in D : Kind(fs, f) = "file"
    /\ fs' = [f \in Files |->
                IF f \in D THEN [exists |-> fs[f].exists, mtime |-> fs[f].mtime,
                                 kind |-> "denied"]
                ELSE fs[f]]
    /\ UNCHANGED <<environments, state, state_file, dirty, seen>>

CheckStatusProbing(t, args, dep_statuses) ==
    /\ pc = "idle"
    /\ ~last_check.called /\ ret = NoRet
    /\ last_check' =
          [called |-> TRUE, task |-> t, args |-> args,
           dep_statuses |-> dep_statuses,
           raised |-> check_task_status_raises(tasks[t], args),
           result |-> IF check_task_status_raises(tasks[t], args)
                      THEN NoCheck.result
                      ELSE check_task_status(t, tasks[t], args, dep_statuses)]
    /\ UNCHANGED <<tasks, environments, fs, clock, state, state_file, pc, run,
                   changed, dirty, seen, nruns, nedits, ret>>

NextProbe ==
    \/ \E t \in TaskNames : Plain /\ ExecuteOk(t, NoArgs)
    \/ \E t \in TaskNames : \E ds \in DepStatusChoices(t) :
          CheckStatusProbing(t, NoArgs, ds)
    \/ CheckReturn
    \/ Return
    \/ Tick
    \/ \E f \in Files : BreakLink(f)
    \/ \E D \in Directories : DenyDirectory(D)

SpecProbe == Init /\ [][NextProbe]_vars

-----------------------------------------------------------------------------
(* One closure run per process: the process ends, by returning or by being *)
(* stopped at any point of the run, and the next invocation builds its     *)
(* StateManager from the state file.                                       *)

(* The process ends between two iterations of the loop, or after the last. *)
ProcessExit ==
    /\ pc = "running"
    /\ pc' = "stopped"
    /\ state' = <<>>
    /\ changed' = FALSE
    /\ UNCHANGED <<tasks, environments, fs, clock, state_file, run, dirty,
                   last_check, seen, nruns, nedits, ret>>

(* The process is stopped inside save: the current task's command has      *)
(* exited 0, save has opened the state file for writing and nothing of the *)
(* new contents has reached it.                                            *)
KilledInSave ==
    /\ pc = "running" /\ ~run.done
    /\ StatusOfCurrent.will_run
    /\ \E W \in SUBSET Writes(tasks[Current].cmd) :
        /\ fs' = Touch(fs, W, clock)
        /\ dirty' = dirty \cup Dirtied(W)
    /\ state_file' = Unreadable
    /\ state' = <<>>
    /\ pc' = "stopped"
    /\ changed' = FALSE
    /\ UNCHANGED <<tasks, environments, clock, run, last_check, seen, nruns,
                   nedits, ret>>

(* A variant that never writes the pruned store.                           *)
setup_state_manager_NoSave ==
    /\ pc = "stopped"
    /\ LET loaded == load(state_file)
           valid_hashes == {hash_task_definition(tasks[t]) : t \in DOMAIN tasks}
           pruned == prune_invalid_entries(loaded._state, valid_hashes)
       IN  /\ ~loaded.raised
           /\ state' = pruned._state
           /\ state_file' = state_file
    /\ pc' = "idle"
    /\ UNCHANGED <<tasks, environments, fs, clock, run, changed, dirty,
                   last_check, seen, nruns, nedits, ret>>

(* cli.py: setup_state_manager, at the start of the next invocation.       *)
setup_state_manager ==
    /\ pc = "stopped"
    /\ LET loaded == load(state_file)
           valid_hashes == {hash_task_definition(tasks[t]) : t \in DOMAIN tasks}
           pruned == prune_invalid_entries(loaded._state, valid_hashes)
       IN  /\ ~loaded.raised
           /\ state' = pruned._state
           /\ state_file' = IF pruned.removed_keys # {} THEN save(pruned._state)
                             ELSE state_file
    /\ pc' = "idle"
    /\ UNCHANGED <<tasks, environments, fs, clock, run, changed, dirty,
                   last_check, seen, nruns, nedits, ret>>

NextRestart ==
    \/ \E t \in TaskNames : \E args \in ArgsOf(t) : StartRun(t, args)
    \/ RunSkip
    \/ RunExecOk
    \/ RunExecFail
    \/ RunSpawnError
    \/ ProcessExit
    \/ KilledInSave
    \/ setup_state_manager
    \/ Tick
    \/ TouchFile("src")

SpecRestart == Init /\ [][NextRestart]_vars

-----------------------------------------------------------------------------
(* StateManager.load on whatever is in the place of the state file: a      *)
(* store of up to three entries of which at most one is ill-formed, or no  *)
(* store at all.                                                           *)

LoadKeys ==
    {CacheKey(Recipe["A"], NoArgs), CacheKey(Recipe["B"], NoArgs),
     CacheKey(Recipe["C"], [mode |-> "dbg"])}

GoodEntries ==
    {[last_run |-> n, input_state |-> <<>>] : n \in 0..1}

BadEntries ==
    {[last_run |-> 0], [input_state |-> <<>>], NotAnObject}

FileChoices ==
    {NotAStore(kind) : kind \in {"missing", "unreadable", "not_utf8",
                                 "invalid_json", "not_an_object"}}
    \cup {Unreadable}
    \cup {file \in UNION {[S -> GoodEntries \cup BadEntries] : S \in SUBSET LoadKeys} :
            Cardinality({k \in DOMAIN file : file[k] \in BadEntries}) <= 1}

InitLoad ==
    /\ tasks = Recipe
    /\ environments = <<>>
    /\ fs = [f \in Files |-> NoFile]
    /\ clock = 0
    /\ state = <<>>
    /\ state_file \in FileChoices
    /\ pc = "idle"
    /\ run = NoRun
    /\ changed = FALSE
    /\ dirty = {}
    /\ last_check = NoCheck
    /\ seen = <<>>
    /\ nruns = 0
    /\ nedits = 0
    /\ ret = NoRet

(* A new StateManager (its store is empty) and its load().                 *)
Load ==
    /\ Call
    /\ LET loaded == load(state_file)
       IN  /\ state' = IF loaded.raised THEN <<>> ELSE loaded._state
           /\ ret' = [call |-> "load", raised |-> loaded.raised,
                      exception |-> loaded.exception]
    /\ UNCHANGED <<fs, state_file, dirty, seen>>

NextLoad ==
    \/ Load
    \/ Return

SpecLoad == InitLoad /\ [][NextLoad]_vars

-----------------------------------------------------------------------------
(* Invocations of the command line, one process each, with the recipe      *)
(* edited between them: setup_state_manager, then calls of the executor,   *)
(* then the process ends and its store is gone.  run.log lists the calls   *)
(* of execute_task over the invocations: the task, its definition and the  *)
(* definition hashes of the recipe at that invocation.                     *)

ValidHashes == {hash_task_definition(tasks[t]) : t \in DOMAIN tasks}

TwinRecipes ==
    {RecipeTwins, [RecipeTwins EXCEPT !["Y"].cmd = "compile"]}

(* The project before the first invocation of the model: new, or after an  *)
(* invocation that ran X with exit code 0 at time 0.                       *)
InitInvocations ==
    /\ tasks \in TwinRecipes
    /\ environments = <<>>
    /\ clock = 0
    /\ state = <<>>
    /\ pc = "stopped"
    /\ changed = FALSE
    /\ dirty = {}
    /\ last_check = NoCheck
    /\ nruns = 0
    /\ nedits = 0
    /\ ret = NoRet
    /\ \E ran \in BOOLEAN :
        /\ fs = [f \in Files |-> IF f = "src" \/ (ran /\ f = "a.o")
                                 THEN [exists |-> TRUE, mtime |-> 0] ELSE NoFile]
        /\ state_file = IF ran
                        THEN save(_update_task_state(fs, 0, tasks["X"], NoArgs))
                        ELSE <<>>
        /\ seen = IF ran THEN CacheKey(tasks["X"], NoArgs) :> Snapshot("X", fs)
                  ELSE <<>>
        /\ run = [NoRun EXCEPT !.log =
                    IF ran THEN <<[task |-> "X", definition |-> tasks["X"],
                                   valid_hashes |-> ValidHashes]>>
                    ELSE <<>>]

(* The recipe file is edited while no invocation is running.               *)
EditBetween(t, field, value) ==
    /\ pc = "stopped"
    /\ nruns + nedits < MaxEvents
    /\ tasks[t][field] # value
    /\ tasks' = [tasks EXCEPT ![t][field] = value]
    /\ nedits' = nedits + 1
    /\ changed' = TRUE
    /\ UNCHANGED <<environments, fs, clock, state, state_file, pc, run, dirty,
                   last_check, seen, nruns, ret>>

(* TaskExecutor.execute_task in the running invocation.                    *)
InvocationExecute(t, returncode) ==
    /\ pc = "idle" /\ ~last_check.called /\ ret = NoRet
    /\ nruns + nedits < MaxEvents
    /\ nruns' = nruns + 1
    /\ \E W \in SUBSET Writes(tasks[t].cmd) : execute_task(t, NoArgs, W, returncode)
    /\ run' = [run EXCEPT !.log = Append(@, [task |-> t, definition |-> tasks[t],
                                             valid_hashes |-> ValidHashes])]
    /\ ret' = Returned(t, NoArgs, returncode, <<returncode>>)
    /\ UNCHANGED <<tasks, environments, clock, pc, changed, last_check, nedits>>

(* The process ends.                                                       *)
InvocationEnds ==
    /\ pc = "idle" /\ ~last_check.called /\ ret = NoRet
    /\ pc' = "stopped"
    /\ state' = <<>>
    /\ UNCHANGED <<tasks, environments, fs, clock, state_file, run, changed, dirty,
                   last_check, seen, nruns, nedits, ret>>

NextInvocations ==
    \/ setup_state_manager
    \/ \E t \in DOMAIN tasks : InvocationExecute(t, 0)
    \/ \E t \in DOMAIN tasks : InvocationExecute(t, FailCode)
    \/ \E t \in DOMAIN tasks : CheckStatus(t, NoArgs, NoDeps)
    \/ CheckReturn
    \/ Return
    \/ InvocationEnds
    \/ \E t \in DOMAIN tasks : \E field \in DOMAIN FieldChoices :
          \E value \in FieldChoices[field] : EditBetween(t, field, value)

SpecInvocations == InitInvocations /\ [][NextInvocations]_vars

-----------------------------------------------------------------------------
(* Two invocations at once on one project root.  Each has its own          *)
(* StateManager: here state[p] is the store of invocation p and pc[p] its  *)
(* position.  save() opens the state file with mode 'w', which truncates   *)
(* it, and writes the JSON text when the file is closed; each invocation   *)
(* writes through its own handle from offset 0, so a text written over a   *)
(* longer one leaves the longer one's tail behind it.                      *)
Invocations == {"P", "Q"}

(* Length of the JSON text of a state file, counted in its entries' lines. *)
TextSize(file) ==
    IF file = Unreadable THEN 0
    ELSE IF FileKind(file) # "object" THEN 1 + Cardinality(Files) * (Cardinality(TaskNames) + 1)
    ELSE Cardinality({<<k, f>> : k \in DOMAIN file, f \in Files \cup {"last_run"}}
                      \ {<<k, f>> \in (DOMAIN file) \X Files :
                            f \notin DOMAIN file[k].input_state})

(* The file after the text is written from offset 0 over what is there.    *)
write_at_start(text, file) ==
    IF TextSize(file) <= TextSize(text) THEN text ELSE NotAStore("invalid_json")

InitConcurrent ==
    /\ tasks = Recipe
    /\ environments = [n \in {"test"} |-> [shell |-> "/bin/bash"]]
    /\ fs = [f \in Files |-> IF f = "src" THEN [exists |-> TRUE, mtime |-> 0]
                                          ELSE NoFile]
    /\ clock = 0
    /\ state = [p \in Invocations |-> <<>>]
    /\ state_file = <<>>
    /\ pc = [p \in Invocations |-> "start"]
    /\ run = NoRun
    /\ changed = FALSE
    /\ dirty = {}
    /\ last_check = NoCheck
    /\ seen = <<>>
    /\ nruns = 0
    /\ nedits = 0
    /\ ret = NoRet

(* cli.py setup_state_manager in invocation p: the one read of the file.   *)
InvocationLoads(p) ==
    /\ pc[p] = "start"
    /\ LET loaded == load(state_file)
           pruned == prune_invalid_entries(loaded._state, ValidHashes)
       IN  /\ ~loaded.raised
           /\ pruned.removed_keys = {}
           /\ state' = [state EXCEPT ![p] = pruned._state]
    /\ pc' = [pc EXCEPT ![p] = "ready"]
    /\ UNCHANGED <<tasks, environments, fs, clock, state_file, run, changed, dirty,
                   last_check, seen, nruns, nedits, ret>>

(* executor.py execute_task in invocation p, up to save()'s open().        *)
InvocationRuns(p, t) ==
    /\ pc[p] = "ready"
    /\ nruns + nedits < MaxEvents
    /\ nruns' = nruns + 1
    /\ \E W \in SUBSET Writes(tasks[t].cmd) : fs' = Touch(fs, W, clock)
    /\ state' = [state EXCEPT ![p] = state_set(@, fs', clock, tasks[t], NoArgs)]
    /\ state_file' = Unreadable
    /\ pc' = [pc EXCEPT ![p] = "saving"]
    /\ UNCHANGED <<tasks, environments, clock, run, changed, dirty,
                   last_check, seen, nedits, ret>>

(* state.py save in invocation p: json.dump and the close of the file.     *)
InvocationWrites(p) ==
    /\ pc[p] = "saving"
    /\ state_file' = write_at_start(save(state[p]), state_file)
    /\ run' = [run EXCEPT !.log = Append(@, [invocation |-> p])]
    /\ pc' = [pc EXCEPT ![p] = "ready"]
    /\ UNCHANGED <<tasks, environments, fs, clock, state, changed, dirty,
                   last_check, seen, nruns, nedits, ret>>

InvocationExits(p) ==
    /\ pc[p] = "ready"
    /\ pc' = [pc EXCEPT ![p] = "done"]
    /\ UNCHANGED <<tasks, environments, fs, clock, state, state_file, run, changed,
                   dirty, last_check, seen, nruns, nedits, ret>>

NextConcurrent ==
    \/ \E p \in Invocations : InvocationLoads(p)
    \/ \E p \in Invocations : \E t \in DOMAIN tasks : InvocationRuns(p, t)
    \/ \E p \in Invocations : InvocationWrites(p)
    \/ \E p \in Invocations : InvocationExits(p)
    \/ Tick

SpecConcurrent == InitConcurrent /\ [][NextConcurrent]_vars

(* C37: last writer wins.  When both invocations have finished, the state  *)
(* file is the store of the invocation that saved last: every entry the    *)
(* other one recorded after the last writer's load is absent, and the file *)
(* is never a mix of the two stores.                                       *)
C37_LastWriterWins ==
    ((\A p \in Invocations : pc[p] = "done") /\ run.log # <<>>) =>
        state_file = save(state[run.log[Len(run.log)].invocation])

-----------------------------------------------------------------------------
(* executor.py execute_task, with the time the command takes: the process  *)
(* is spawned, files can be edited while subprocess.run waits for it, and  *)
(* _update_task_state reads the inputs after it has exited.                *)
CommandStarts(t) ==
    /\ pc = "idle" /\ ~last_check.called /\ ret = NoRet
    /\ nruns + nedits < MaxEvents
    /\ nruns' = nruns + 1
    /\ pc' = "running"
    /\ run' = [run EXCEPT !.task_name = t, !.edited = {}, !.done = FALSE]
    /\ UNCHANGED <<tasks, environments, fs, clock, state, state_file, changed,
                   dirty, last_check, seen, nedits, ret>>

EditDuring(f) ==
    /\ pc = "running"
    /\ nruns + nedits < MaxEvents
    /\ nedits' = nedits + 1
    /\ fs' = Touch(fs, {f}, clock)
    /\ fs' # fs
    /\ run' = [run EXCEPT !.edited = @ \cup {f}]
    /\ changed' = TRUE
    /\ dirty' = dirty \cup Dirtied({f})
    /\ UNCHANGED <<tasks, environments, clock, state, state_file, pc,
                   last_check, seen, nruns, ret>>

CommandExits(returncode) ==
    /\ pc = "running"
    /\ LET t == run.task_name
       IN  \E W \in SUBSET Writes(tasks[t].cmd) :
              /\ fs' = Touch(fs, W, clock)
              /\ IF returncode = 0
                 THEN /\ state' = _update_task_state(fs', clock, tasks[t], NoArgs)
                      /\ state_file' = save(state')
                      /\ seen' = (CacheKey(tasks[t], NoArgs) :> Snapshot(t, fs')) @@ seen
                      /\ dirty' = ((dirty \cup Dirtied(W)) \ {t})
                                     \cup (Dirtied(run.edited) \cap {t})
                 ELSE /\ UNCHANGED <<state, state_file, seen>>
                      /\ dirty' = dirty \cup Dirtied(W)
    /\ run' = [run EXCEPT !.done = TRUE, !.exit_code = returncode]
    /\ pc' = "idle"
    /\ UNCHANGED <<tasks, environments, clock, changed, last_check, nruns,
                   nedits, ret>>

NextDuring ==
    \/ \E t \in DOMAIN tasks : CommandStarts(t)
    \/ EditDuring("src")
    \/ CommandExits(0)
    \/ CommandExits(FailCode)
    \/ \E t \in DOMAIN tasks : CheckStatus(t, NoArgs, NoDeps)
    \/ CheckReturn
    \/ Tick
    \/ TouchFile("src")

SpecDuring == Init /\ [][NextDuring]_vars

(* C38: no false negative under a concurrent edit.  When an input of a     *)
(* task was modified while the task's command was running and the command  *)
(* exited with code 0, the next check of the task does not report fresh.   *)
C38_EditDuringRunIsSeen ==
    (/\ last_check.called
     /\ run.done /\ run.exit_code = 0
     /\ last_check.task = run.task_name
     /\ run.edited \cap InputCandidates(tasks[run.task_name]) # {})
        => last_check.result.reason # "fresh"

-----------------------------------------------------------------------------
(* cli.py: a task invoked by name, one process per invocation.  Between    *)
(* invocations the store is what setup_state_manager makes of the state    *)
(* file; the recipe does not change, so nothing is pruned.                 *)

(* The tasks of the target's closure that check_task_status reports fresh  *)
(* as the invocation starts.                                               *)
FreshAtStart(t, args) ==
    {n \in {t} \cup Range(_get_task_and_dependencies(t, tasks).result) :
        ~check_task_status(n, tasks[n], IF n = t THEN args ELSE NoArgs,
                           NoDeps).will_run}

(* cli.py 372-388: setup_state_manager, then TaskExecutor.execute_task of  *)
(* the named task and of nothing else; the process exits with the          *)
(* command's exit code.                                                    *)
execute_task_command(task_name, args, returncode) ==
    /\ Call
    /\ LET loaded == load(state_file)
           valid_hashes == {hash_task_definition(tasks[t]) : t \in DOMAIN tasks}
           pruned == prune_invalid_entries(loaded._state, valid_hashes)
       IN  /\ ~loaded.raised
           /\ pruned.removed_keys = {}
           /\ state = pruned._state
    /\ \E W \in SUBSET Writes(tasks[task_name].cmd) :
          execute_task(task_name, args, W, returncode)
    /\ ret' = [call |-> "execute_task_command", task |-> task_name, args |-> args,
               fresh |-> FreshAtStart(task_name, args),
               executed |-> <<task_name>>,
               exit_code |-> returncode]

NextCli ==
    \/ \E t \in TaskNames : \E args \in ArgsOf(t) : execute_task_command(t, args, 0)
    \/ \E t \in TaskNames : \E args \in ArgsOf(t) :
          execute_task_command(t, args, FailCode)
    \/ Return
    \/ Tick
    \/ TouchFile("src")

SpecCli == Init /\ [][NextCli]_vars

-----------------------------------------------------------------------------
(* hasher.py called on its own: hash_arguments on argument maps given in   *)
(* any order, on the empty map and on None, and the cache key made of the  *)
(* result for a task of the recipe.                                        *)

MaxArgs == 2

ArgNames == {"a", "b", "mode"}
ArgValues == {"", "x"}

GivenArgs ==
    {None} \cup
    {items \in UNION {[1..n -> ArgNames \X ArgValues] : n \in 0..MaxArgs} :
        \A i, j \in DOMAIN items : i # j => items[i][1] # items[j][1]}

HashArguments(t, args) ==
    /\ Call
    /\ ret' = [call |-> "hash_arguments", task |-> t, args |-> args,
               value |-> hash_arguments(args),
               cache_key |-> make_cache_key(_get_task_hash(tasks[t]),
                                            hash_arguments(args))]
    /\ UNCHANGED <<fs, state, state_file, dirty, seen>>

NextHash ==
    \/ \E t \in {"A", "C"} : \E args \in GivenArgs : HashArguments(t, args)
    \/ Return

SpecHash == Init /\ [][NextHash]_vars

-----------------------------------------------------------------------------
(* executor.py: _prepare_command called on its own, on commands with       *)
(* placeholders and argument maps given in any order, whose values may     *)
(* themselves be the text of a placeholder.                                *)

RenderCommands == {"compile", "link {{mode}}", "{{a}}-{{b}}"}
RenderValues == {"x", "{{a}}", "{{b}}"}

RenderArgs ==
    {None} \cup
    {items \in UNION {[1..n -> ArgNames \X RenderValues] : n \in 0..MaxArgs} :
        \A i, j \in DOMAIN items : i # j => items[i][1] # items[j][1]}

PrepareCommand(cmd, args) ==
    /\ Call
    /\ ret' = [call |-> "_prepare_command", cmd |-> cmd, args |-> args,
               value |-> _prepare_command(cmd, args)]
    /\ UNCHANGED <<fs, state, state_file, dirty, seen>>

NextRender ==
    \/ \E cmd \in RenderCommands : \E args \in RenderArgs : PrepareCommand(cmd, args)
    \/ Return

SpecRender == Init /\ [][NextRender]_vars

-----------------------------------------------------------------------------
(* Closure runs over recipes that are misconfigured in part or in whole:   *)
(* a dependency cycle, a task that depends on itself, a dependency "Z"     *)
(* that names no task.  tasks.execute_task raises ValueError for a target  *)
(* that is no task, for a name in the closure that is no task, and for a   *)
(* cycle in the closure.                                                   *)

WithDeps(t, deps) == [Recipe EXCEPT ![t].deps = deps]

RecipeChoices ==
    {Recipe,
     WithDeps("A", <<"C">>),
     WithDeps("B", <<"B">>),
     WithDeps("B", <<"A", "Z">>),
     WithDeps("G", <<"A", "Z">>),
     WithDeps("G", <<"G">>)}

InitRecipes ==
    /\ tasks \in RecipeChoices
    /\ environments = [n \in {"test"} |-> [shell |-> "/bin/bash"]]
    /\ fs = [f \in Files |-> IF f = "src" THEN [exists |-> TRUE, mtime |-> 0]
                                          ELSE NoFile]
    /\ clock = 0
    /\ state = <<>>
    /\ state_file = <<>>
    /\ pc = "idle"
    /\ run = NoRun
    /\ changed = FALSE
    /\ dirty = {}
    /\ last_check = NoCheck
    /\ seen = <<>>
    /\ nruns = 0
    /\ nedits = 0
    /\ ret = NoRet

StartRunRaises(task_name, args) ==
    /\ pc = "idle" /\ ret = NoRet
    /\ nruns + nedits < MaxEvents
    /\ nruns' = nruns + 1
    /\ LET task_deps == _get_task_and_dependencies(task_name, tasks)
       IN  \/ task_name \notin DOMAIN tasks
           \/ task_deps.error
           \/ ~resolve_dependencies(tasks, task_deps.result).ok
    /\ UNCHANGED <<tasks, environments, fs, clock, state, state_file, pc, run,
                   changed, dirty, last_check, seen, nedits>>
    /\ ret' = [call |-> "tasks.execute_task", raised |-> TRUE,
               task_name |-> task_name,
               untouched |-> (fs' = fs /\ state' = state /\ state_file' = state_file)]

NextRecipes ==
    \/ \E t \in TaskNames : StartRun(t, NoArgs)
    \/ \E t \in TaskNames \cup {"Z"} : StartRunRaises(t, NoArgs)
    \/ RunSkip
    \/ RunExecOk
    \/ RunExecFail
    \/ RunSpawnError
    \/ RunReturn
    \/ Return

SpecRecipes == InitRecipes /\ [][NextRecipes]_vars

-----------------------------------------------------------------------------
(* tasks.py execute_task over recipes in which a task is reached along     *)
(* several paths: C -> G -> A with C -> B -> A, C -> B -> A with C -> A,   *)
(* and a deps list that names B twice.                                     *)
DiamondRecipes ==
    {WithDeps("C", <<"G", "B">>),
     WithDeps("C", <<"B", "A">>),
     WithDeps("C", <<"B", "B">>)}

InitDiamond ==
    /\ tasks \in DiamondRecipes
    /\ environments = [n \in {"test"} |-> [shell |-> "/bin/bash"]]
    /\ fs = [f \in Files |-> IF f = "src" THEN [exists |-> TRUE, mtime |-> 0]
                                          ELSE NoFile]
    /\ clock = 0
    /\ state = <<>>
    /\ state_file = <<>>
    /\ pc = "idle"
    /\ run = NoRun
    /\ changed = FALSE
    /\ dirty = {}
    /\ last_check = NoCheck
    /\ seen = <<>>
    /\ nruns = 0
    /\ nedits = 0
    /\ ret = NoRet

NextDiamond ==
    \/ \E t \in TaskNames : StartRun(t, NoArgs)
    \/ RunSkip
    \/ RunExecOk
    \/ RunExecFail
    \/ RunReturn
    \/ Tick

SpecDiamond == InitDiamond /\ [][NextDiamond]_vars

NoDuplicates(s) == \A i, j \in DOMAIN s : s[i] = s[j] => i = j

(* C40: in one closure run each task of the closure is checked at most     *)
(* once and executed at most once, also in a diamond and with a dependency *)
(* listed twice.                                                           *)
C40_AtMostOnce ==
    pc = "running" =>
        /\ NoDuplicates(run.checked)
        /\ NoDuplicates(run.executed)
        /\ Range(run.checked) \subseteq
              Range(_get_task_and_dependencies(run.task_name, tasks).result)

C40_Witness ==
    /\ pc = "running" /\ run.done
    /\ run.task_name = "C"
    /\ tasks["C"].deps = <<"G", "B">>
    /\ run.executed = run.checked
    /\ Range(run.executed) = {"A", "B", "G", "C"}

-----------------------------------------------------------------------------
(* graph.py called on its own, for every task map over three names whose   *)
(* dependency lists have up to MaxDeps entries; "Z" names no task.         *)

GraphNames == <<"A", "B", "C">>

DepLists ==
    UNION {[1..n -> Range(GraphNames) \cup {"Z"}] : n \in 0..MaxDeps}

InitGraph ==
    /\ tasks \in [Range(GraphNames) ->
                    {TaskDef("true", deps, <<>>, <<>>, "") : deps \in DepLists}]
    /\ environments = <<>>
    /\ fs = [f \in Files |-> NoFile]
    /\ clock = 0
    /\ state = <<>>
    /\ state_file = <<>>
    /\ pc = "idle"
    /\ run = NoRun
    /\ changed = FALSE
    /\ dirty = {}
    /\ last_check = NoCheck
    /\ seen = <<>>
    /\ nruns = 0
    /\ nedits = 0
    /\ ret = NoRet

PureCall(result) ==
    /\ ret = NoRet
    /\ ret' = result
    /\ UNCHANGED <<tasks, environments, fs, clock, state, state_file, pc, run,
                   changed, dirty, last_check, seen, nruns, nedits>>

Resolve ==
    LET result == resolve_dependencies(tasks, GraphNames)
    IN  PureCall([call |-> "resolve_dependencies", ok |-> result.ok,
                  order |-> result.order, cycle |-> result.cycle])

Validate ==
    LET result == validate_dependencies(tasks, GraphNames)
    IN  PureCall([call |-> "validate_dependencies", raised |-> result.raised,
                  missing_deps |-> result.missing_deps])

(* get_task_dependencies of a name, and what _get_task_and_dependencies    *)
(* gives the closure run for the same name.                                *)
Dependencies(task_name) ==
    LET result == get_task_dependencies(task_name, tasks)
        closure == _get_task_and_dependencies(task_name, tasks)
    IN  PureCall([call |-> "get_task_dependencies", task_name |-> task_name,
                  terminated |-> result.terminated,
                  dependencies |-> result.dependencies,
                  raised |-> closure.error,
                  execution_set |-> Range(closure.result)])

NextGraph ==
    \/ Resolve
    \/ Validate
    \/ \E task_name \in Range(GraphNames) \cup {"Z"} : Dependencies(task_name)
    \/ Return

SpecGraph == InitGraph /\ [][NextGraph]_vars

-----------------------------------------------------------------------------
(* Properties.                                                             *)

HasIO(t) == tasks[t].inputs # <<>> \/ tasks[t].outputs # <<>>

Executed(t) == t \in Range(run.executed)

ReportedFresh(t) ==
    /\ ~run.statuses[t].will_run
    /\ run.statuses[t].reason = "fresh"
    /\ ~Executed(t)

(* C1, as stated: in an immediate second run of the same target, after a   *)
(* run in which every task of the closure executed successfully and        *)
(* created its outputs and with nothing changed in between, every task     *)
(* that declares an input or an output is reported fresh and not executed. *)
C1_SecondRunAllFresh ==
    run.second => \A t \in DOMAIN run.statuses : HasIO(t) => ReportedFresh(t)

(* C1, amended: the same, for every task that had no file matching its     *)
(* input patterns written by a command since its state was recorded.       *)
C1_SecondRunCleanFresh ==
    run.second =>
        \A t \in DOMAIN run.statuses :
            HasIO(t) /\ t \in run.clean => ReportedFresh(t)

C1_Witness ==
    /\ run.second /\ run.done /\ run.task_name = "C"
    /\ \A t \in {"A", "B", "C"} :
        t \in DOMAIN run.statuses /\ t \in run.clean /\ ReportedFresh(t)

CheckedTask == tasks[last_check.task]

CheckedKey == CacheKey(CheckedTask, last_check.args)

(* C2: of the files matching the task's input patterns, check_task_status  *)
(* reports as changed (reason inputs_changed, path in changed_files)       *)
(* exactly those whose modification time now is greater than it was at     *)
(* the task's last successful run, by however little, or that were not     *)
(* there then.                                                             *)
C2_EveryAdvanceReported ==
    (last_check.called /\ CheckedKey \in DOMAIN state) =>
        \A f \in _get_all_input_files(fs, CheckedTask) :
            (/\ last_check.result.reason = "inputs_changed"
             /\ f \in last_check.result.changed_files)
            <=> (\/ ~seen[CheckedKey].fs[f].exists
                 \/ fs[f].mtime > seen[CheckedKey].fs[f].mtime)

(* C3: a file recorded in the task's input state that has since been       *)
(* deleted makes check_task_status report will_run with reason             *)
(* inputs_changed and the path in changed_files.                           *)
C3_DeletionIsChange ==
    (last_check.called /\ CheckedKey \in DOMAIN state) =>
        \A f \in DOMAIN state[CheckedKey].input_state :
            ~fs[f].exists =>
                /\ last_check.result.will_run
                /\ last_check.result.reason = "inputs_changed"
                /\ f \in last_check.result.changed_files

(* C4: when the store holds no entry under the task's cache key,           *)
(* check_task_status returns will_run with reason never_run, for every     *)
(* task, arguments and dependency statuses.                                *)
C4_NoEntryNeverRun ==
    (last_check.called /\ CheckedKey \notin DOMAIN state) =>
        /\ last_check.result.will_run
        /\ last_check.result.reason = "never_run"

C4_Witness ==
    /\ last_check.called
    /\ CheckedKey \notin DOMAIN state
    /\ last_check.args # NoArgs
    /\ CacheKey(CheckedTask, NoArgs) \in DOMAIN state
    /\ last_check.dep_statuses # NoDeps
    /\ last_check.result.reason = "never_run"

CheckedMissing ==
    {CheckedTask.outputs[i] : i \in MissingOutputs(fs, CheckedTask)}

(* C5: whenever a declared output does not exist, check_task_status        *)
(* returns will_run; with a state entry and no changed input the reason    *)
(* is outputs_missing and a missing path is reported.                      *)
C5_MissingOutputRuns ==
    (last_check.called /\ CheckedMissing # {}) =>
        /\ last_check.result.will_run
        /\ (/\ CheckedKey \in DOMAIN state
            /\ _get_input_changes(fs, CheckedTask, state[CheckedKey]) = {})
           => /\ last_check.result.reason = "outputs_missing"
              /\ last_check.result.changed_files # {}
              /\ last_check.result.changed_files \subseteq CheckedMissing

C5_Witness ==
    /\ last_check.called
    /\ CheckedKey \in DOMAIN state
    /\ CheckedMissing # {}
    /\ \E d \in DOMAIN last_check.dep_statuses : last_check.dep_statuses[d].will_run
    /\ last_check.result.reason = "outputs_missing"

(* C6: in a closure run of the chain A <- B <- C in which B and C were     *)
(* fresh at the start and A runs, B and C are reported non-fresh and       *)
(* re-execute.                                                             *)
C6_Cascade ==
    (/\ run.done /\ run.exit_code = 0 /\ run.task_name = "C"
     /\ {"B", "C"} \subseteq run.fresh_at_start
     /\ Executed("A"))
    => \A t \in {"B", "C"} : run.statuses[t].will_run /\ Executed(t)

CheckedDepRan ==
    \E d \in DOMAIN last_check.dep_statuses : last_check.dep_statuses[d].will_run

C8_QuietDependency ==
    \A t \in run.dep_quiet :
        (/\ tasks[t].outputs # <<>>
         /\ run.statuses[t].reason \notin {"inputs_changed", "outputs_missing"})
        => /\ ReportedFresh(t)
           /\ \A o \in DepOutputs(t) :
                fs[o].exists =>
                    o \in DOMAIN state[CacheKey(tasks[t], ArgsFor(t))].input_state

(* C9: when a dependency's run in the closure run has advanced one of its  *)
(* outputs past what it was when the dependent recorded its state, the     *)
(* dependent is reported will_run and executes in the same run.            *)
C9_ChangedDependency ==
    \A t \in run.dep_changed : run.statuses[t].will_run /\ Executed(t)

EnvHashKey == "_env_hash_test"

(* C10: a task that references an environment and has run successfully is *)
(* reported will_run with reason environment_changed at the next check     *)
(* after the environment's definition has changed; that reason is          *)
(* reported only then, or when its state records no environment hash.      *)
C10_EnvironmentChanged ==
    (/\ last_check.called
     /\ CheckedTask.env \in DOMAIN environments
     /\ CheckedKey \in DOMAIN state)
    => /\ seen[CheckedKey].environment # <<environments[CheckedTask.env]>>
          => /\ last_check.result.will_run
             /\ last_check.result.reason = "environment_changed"
       /\ last_check.result.reason = "environment_changed"
          => \/ seen[CheckedKey].environment # <<environments[CheckedTask.env]>>
             \/ EnvHashKey \notin DOMAIN state[CheckedKey].input_state

(* The entries recorded by earlier runs of the checked task, and what it   *)
(* means for its definition to have been edited since.                     *)
EarlierKeys ==
    {k \in DOMAIN seen \cap DOMAIN state : seen[k].task = last_check.task}

FieldEdited(old, new) ==
    \/ old.cmd # new.cmd
    \/ old.outputs # new.outputs
    \/ old.working_dir # new.working_dir
    \/ old.args # new.args

ContentEdited(old, new) ==
    \/ old.cmd # new.cmd
    \/ BagOf(old.outputs) # BagOf(new.outputs)
    \/ old.working_dir # new.working_dir
    \/ BagOf(old.args) # BagOf(new.args)

(* C11, as stated: once a task has run successfully, a change of its cmd,  *)
(* outputs, working_dir or args makes the next check return will_run with  *)
(* reason never_run; definition_changed is never reported.                 *)
C11_EditedIsNeverRun ==
    last_check.called =>
        /\ last_check.result.reason # "definition_changed"
        /\ (\E k \in EarlierKeys : FieldEdited(seen[k].definition, CheckedTask)) =>
              /\ last_check.result.will_run
              /\ last_check.result.reason = "never_run"

(* C11, amended: a change of the cmd, of the outputs or args other than   *)
(* in their order, or of the working_dir gives the task another cache key; *)
(* the next check returns never_run unless the store holds an entry under  *)
(* the new key; definition_changed is never reported.                      *)
C11_EditedHasNewKey ==
    last_check.called =>
        /\ last_check.result.reason # "definition_changed"
        /\ \A k \in EarlierKeys :
              ContentEdited(seen[k].definition, CheckedTask) =>
                  /\ CheckedKey # k
                  /\ CheckedKey \notin DOMAIN state =>
                        /\ last_check.result.will_run
                        /\ last_check.result.reason = "never_run"

C11_Witness ==
    /\ last_check.called
    /\ \E k \in EarlierKeys :
          /\ ContentEdited(seen[k].definition, CheckedTask)
          /\ seen[k].definition.working_dir # CheckedTask.working_dir
    /\ last_check.result.reason = "never_run"

(* Two lists that hold the same elements, each as often, in any order.     *)
SameUpToOrder(s, t) ==
    /\ Len(s) = Len(t)
    /\ \E p \in [DOMAIN s -> DOMAIN s] :
          /\ \A i, j \in DOMAIN s : i # j => p[i] # p[j]
          /\ \A i \in DOMAIN s : t[i] = s[p[i]]

SameContent(d1, d2) ==
    /\ d1.cmd = d2.cmd
    /\ d1.working_dir = d2.working_dir
    /\ SameUpToOrder(d1.outputs, d2.outputs)
    /\ SameUpToOrder(d1.args, d2.args)

(* The definitions at hand: those of the recipe as it stands and those     *)
(* under which an entry was recorded.                                      *)
KnownDefinitions ==
    {tasks[t] : t \in DOMAIN tasks} \cup {seen[k].definition : k \in DOMAIN seen}

(* C24: two definitions hash identically exactly when they agree on cmd,   *)
(* working_dir and, up to order, on outputs and args, whatever their deps, *)
(* inputs and desc; so a task whose deps, inputs or desc only were edited  *)
(* since its entry was recorded is checked under the same cache key and    *)
(* is not reported never_run.                                              *)
C24_HashOfContentOnly ==
    /\ \A d1, d2 \in KnownDefinitions :
          (hash_task_definition(d1) = hash_task_definition(d2)) <=> SameContent(d1, d2)
    /\ last_check.called =>
          \A k \in EarlierKeys :
              SameContent(seen[k].definition, CheckedTask) =>
                  /\ CheckedKey = k
                  /\ last_check.result.reason # "never_run"

C24_Witness ==
    /\ last_check.called
    /\ \E k \in EarlierKeys :
          /\ seen[k].definition.deps # CheckedTask.deps
          /\ seen[k].definition.desc # CheckedTask.desc
          /\ SameContent(seen[k].definition, CheckedTask)
    /\ last_check.result.reason = "fresh"

(* The tasks a task depends on, directly or through others, and the task   *)
(* maps with a dependency cycle, said without the resolver.                *)
RECURSIVE Reach(_, _)
Reach(tk, S) ==
    LET next == S \cup UNION {Preds(tk, m) : m \in S}
    IN  IF next = S THEN S ELSE Reach(tk, next)

TransitiveDeps(tk, n) == Reach(tk, Preds(tk, n))

OnCycle(tk, n) == n \in TransitiveDeps(tk, n)

HasCycle(tk) == \E n \in DOMAIN tk : OnCycle(tk, n)

DepsExist(tk) == \A n \in DOMAIN tk : Preds(tk, n) \subseteq DOMAIN tk

Position(s, x) == CHOOSE i \in DOMAIN s : s[i] = x

(* C12: for a task map whose deps form a DAG and name existing tasks only, *)
(* resolve_dependencies returns a list that holds every task exactly once  *)
(* and each task after all of its transitive dependencies.                 *)
C12_OrderRespectsDeps ==
    (ret.call = "resolve_dependencies" /\ DepsExist(tasks) /\ ~HasCycle(tasks)) =>
        /\ ret.ok
        /\ Len(ret.order) = Cardinality(DOMAIN tasks)
        /\ Range(ret.order) = DOMAIN tasks
        /\ \A n \in DOMAIN tasks : \A d \in TransitiveDeps(tasks, n) :
              Position(ret.order, d) < Position(ret.order, n)

C12_Witness ==
    /\ ret.call = "resolve_dependencies"
    /\ tasks["A"].deps = <<"B">> /\ tasks["B"].deps = <<"C">>
    /\ tasks["C"].deps = <<>>
    /\ ret.order = <<"C", "B", "A">>

(* C13: for a task map whose deps contain a cycle (a task that depends on  *)
(* itself included), resolve_dependencies fails, returns no order, and the *)
(* error names at least one task of the cycle.                             *)
C13_CycleFails ==
    (ret.call = "resolve_dependencies" /\ HasCycle(tasks)) =>
        /\ ~ret.ok
        /\ ret.order = <<>>
        /\ ret.cycle # <<>>
        /\ \A i \in DOMAIN ret.cycle : OnCycle(tasks, ret.cycle[i])

C13_Witness ==
    /\ ret.call = "resolve_dependencies"
    /\ tasks["A"].deps = <<"A">>
    /\ tasks["B"].deps = <<"Z", "C">>
    /\ ~ret.ok
    /\ Range(ret.cycle) = {"A"}

MissingPairs(tk) ==
    UNION {{<<n, d>> : d \in Preds(tk, n) \ DOMAIN tk} : n \in DOMAIN tk}

(* C15: validate_dependencies succeeds exactly when every name in every    *)
(* task's deps is a key of the task map; when it fails the error lists     *)
(* every (task, missing dependency) pair of the recipe.                    *)
C15_ValidateListsAll ==
    ret.call = "validate_dependencies" =>
        /\ ret.raised <=> ~DepsExist(tasks)
        /\ Range(ret.missing_deps) = MissingPairs(tasks)

C15_Witness ==
    /\ ret.call = "validate_dependencies"
    /\ ret.raised
    /\ {<<"A", "Z">>, <<"C", "Z">>} \subseteq Range(ret.missing_deps)

(* The closure of a target: the target and every task it depends on,       *)
(* directly or through others.                                             *)
Closure(tk, target) == {target} \cup TransitiveDeps(tk, target)

(* The tasks the run has evaluated so far, in the order it did.            *)
Evaluated ==
    SubSeq(run.order, 1, IF run.done THEN run.i ELSE run.i - 1)

(* C16: a closure run evaluates every task of the target's closure and no  *)
(* other, each after all of its dependencies, and executes exactly the     *)
(* tasks whose status is will_run; begun with an empty store, it executes  *)
(* all of them, producers before consumers.                                *)
C16_ClosureInOrder ==
    pc = "running" =>
        /\ Range(run.order) = Closure(tasks, run.task_name)
        /\ Len(run.order) = Cardinality(Range(run.order))
        /\ \A n \in Range(run.order) : \A d \in Preds(tasks, n) :
              Position(run.order, d) < Position(run.order, n)
        /\ DOMAIN run.statuses = Range(Evaluated)
        /\ run.executed =
              SelectSeq(Evaluated, LAMBDA t : run.statuses[t].will_run)
        /\ (run.had = {} /\ run.done /\ run.exit_code = 0)
              => run.executed = run.order

C16_Witness ==
    /\ pc = "running" /\ run.done /\ run.exit_code = 0
    /\ run.task_name = "C"
    /\ run.had # {}
    /\ run.executed = <<"A", "C">>

TargetKey ==
    _get_task_hash(tasks[run.task_name]) \o <<Sep>>
        \o hash_arguments(dict_items(run.args))

ExpectedKey(t) ==
    IF t = run.task_name /\ run.args # NoArgs
    THEN TargetKey ELSE _get_task_hash(tasks[t])

(* C17: in a closure run with arguments only the requested task is         *)
(* checked, rendered and recorded with them, under the key made of its     *)
(* definition hash, the separator and the arguments' hash; every           *)
(* dependency is checked, rendered and recorded without arguments, under   *)
(* its definition hash alone.                                              *)
C17_ArgsForTargetOnly ==
    (pc = "running" /\ run.args # NoArgs) =>
        /\ \A t \in DOMAIN run.statuses :
              run.statuses[t].reason = "never_run" <=> ExpectedKey(t) \notin run.had
        /\ run.written \subseteq {ExpectedKey(t) : t \in Range(run.executed)}
        /\ \A j \in DOMAIN run.executed :
              run.commands[j] =
                IF run.executed[j] = run.task_name
                THEN <<[text |-> "link "], [text |-> run.args.mode]>>
                ELSE <<[text |-> tasks[run.executed[j]].cmd]>>

C17_Witness ==
    /\ pc = "running" /\ run.done /\ run.args # NoArgs
    /\ _get_task_hash(tasks["C"]) \in run.had
    /\ run.executed = <<"A", "B", "C">>
    /\ TargetKey \in run.written
    /\ _get_task_hash(tasks["A"]) \in run.written

(* C19: a closure run stops at the first task that returns a non-zero      *)
(* code: no later task is checked or executed, no entry is written after   *)
(* it, and the run returns that code; the run returns 0 only if every      *)
(* executed task returned 0.                                               *)
C19_ShortCircuit ==
    pc = "running" =>
        /\ \A j \in DOMAIN run.codes :
              run.codes[j] # 0 =>
                /\ j = Len(run.codes)
                /\ run.done
                /\ run.exit_code = run.codes[j]
                /\ Evaluated[Len(Evaluated)] = run.executed[j]
        /\ \A k \in run.written :
              \E j \in DOMAIN run.codes :
                  run.codes[j] = 0 /\ k = ExpectedKey(run.executed[j])
        /\ (run.done /\ run.exit_code = 0) =>
              \A j \in DOMAIN run.codes : run.codes[j] = 0

C19_Witness ==
    /\ pc = "running" /\ run.done
    /\ run.task_name = "C"
    /\ run.order = <<"A", "B", "C">>
    /\ run.executed = <<"A", "B">>
    /\ run.codes = <<0, FailCode>>
    /\ run.exit_code = FailCode
    /\ DOMAIN run.statuses = {"A", "B"}

(* C18: when the command exits non-zero or cannot be spawned,              *)
(* TaskExecutor.execute_task returns a non-zero code and leaves the store  *)
(* in memory and the state file as they were; it returns 0 only when the   *)
(* command exited 0.                                                       *)
C18_FailureLeavesState ==
    ret.call = "execute_task" =>
        /\ ret.exited # <<0>> => (ret.value # 0 /\ ret.store_unchanged)
        /\ ret.value # 0 => ret.store_unchanged
        /\ ret.value = 0 => ret.exited = <<0>>

C18_Witness ==
    /\ ret.call = "execute_task"
    /\ ret.exited = <<FailCode>>
    /\ ret.value = FailCode
    /\ state # <<>>
    /\ \E f \in Files : fs[f].exists /\ fs[f].mtime = clock /\ clock > 0

Misconfigured(tk, target) ==
    \E n \in Closure(tk, target) : n \notin DOMAIN tk \/ OnCycle(tk, n)

(* C14: a closure run whose target's closure holds a dependency that names *)
(* no task, or a dependency cycle, raises before any command is spawned    *)
(* and before the store is changed: no such run ever gets to its loop, and *)
(* the call that raises leaves the files, the store and the state file as  *)
(* they were.                                                              *)
C14_NoPartialExecution ==
    /\ pc = "running" => ~Misconfigured(tasks, run.task_name)
    /\ ret.call = "tasks.execute_task" =>
          /\ ret.raised
          /\ Misconfigured(tasks, ret.task_name)
          /\ ret.untouched

C14_Witness ==
    /\ ret.call = "tasks.execute_task"
    /\ ret.raised
    /\ ret.task_name = "G"
    /\ tasks["G"].deps = <<"A", "Z">>
    /\ state # <<>>

(* The tasks of the run, finished or stopped, whose command exited 0 and   *)
(* whose execute_task call returned.                                       *)
Completed ==
    {run.executed[j] : j \in {i \in DOMAIN run.executed : run.codes[i] = 0}}

StatusAfterRestart(t) ==
    check_task_status(t, tasks[t], ArgsFor(t), NoDeps)

(* C20: at every point of a closure run, and after the process has ended,  *)
(* the state file holds the entry of every task of the run that completed  *)
(* successfully; the invocation that follows, having loaded the file, has  *)
(* those entries and reports such a task fresh when it declares an input   *)
(* or output, its outputs exist and no file matching its input patterns    *)
(* was written since its entry was recorded.                               *)
C20_CompletedSurviveStop ==
    /\ pc = "running" =>
          \A t \in Completed :
              /\ ExpectedKey(t) \in DOMAIN state_file
              /\ from_dict(state_file[ExpectedKey(t)]) = state[ExpectedKey(t)]
    /\ pc = "stopped" =>
          \A t \in Completed : ExpectedKey(t) \in DOMAIN state_file
    /\ pc = "idle" =>
          \A t \in Completed :
              /\ ExpectedKey(t) \in DOMAIN state
              /\ StatusAfterRestart(t).reason # "never_run"
              /\ (HasIO(t) /\ t \notin dirty /\ OutputsExist(fs, tasks[t])) =>
                    (~StatusAfterRestart(t).will_run
                        /\ StatusAfterRestart(t).reason = "fresh")

(* The cache key of a task run with the given arguments, from the two      *)
(* digests.                                                                *)
KeyOf(t, args) ==
    IF args = NoArgs THEN hash_task_definition(tasks[t])
    ELSE hash_task_definition(tasks[t]) \o <<Sep>>
            \o hash_arguments(dict_items(args))

(* C21: a successful execute_task with arguments X adds or replaces the    *)
(* entry under the cache key of (definition, X) and no other: every other  *)
(* entry, those of the same task run with other arguments or with none     *)
(* included, is as it was, and the keys of one task for different          *)
(* arguments differ.                                                       *)
C21_OnlyOwnEntry ==
    (ret.call = "execute_task" /\ ret.value = 0) =>
        /\ KeyOf(ret.task, ret.args) \in DOMAIN state
        /\ ret.changed_keys \subseteq {KeyOf(ret.task, ret.args)}
        /\ \A other \in ArgsOfCommand(ret.task) \ {ret.args} :
              KeyOf(ret.task, other) # KeyOf(ret.task, ret.args)

C21_Witness ==
    /\ ret.call = "execute_task" /\ ret.value = 0
    /\ ret.task = "C" /\ ret.args = [mode |-> "dbg"]
    /\ ret.changed_keys = {KeyOf("C", ret.args)}
    /\ \A other \in ArgsOfCommand("C") : KeyOf("C", other) \in DOMAIN state

(* The definition-hash component of a cache key: its first token.          *)
DefinitionPart(cache_key) == <<cache_key[1]>>

(* C22: prune_invalid_entries removes exactly the keys whose definition    *)
(* hash is not among the valid hashes, with or without an argument-hash    *)
(* suffix, leaves every other key with its entry, and returns the removed  *)
(* keys.                                                                   *)
C22_PruneExact ==
    ret.call = "prune_invalid_entries" =>
        LET gone == {k \in DOMAIN ret.before :
                        DefinitionPart(k) \notin ret.valid_task_hashes}
        IN  /\ DOMAIN state = DOMAIN ret.before \ gone
            /\ \A k \in DOMAIN state : state[k] = ret.before[k]
            /\ ret.removed_keys = gone

C22_Witness ==
    /\ ret.call = "prune_invalid_entries"
    /\ \E k \in ret.removed_keys : Len(k) > 1
    /\ \E k \in ret.removed_keys : Len(k) = 1
    /\ \E k \in DOMAIN state : Len(k) > 1

WellFormedStore(file) ==
    /\ \A k \in DOMAIN file : "file" \notin DOMAIN k[1] /\ "truncated" \notin DOMAIN k[1]
    /\ \A k \in DOMAIN file : file[k] \in GoodEntries

(* C23: load never fails: whatever is in the place of the state file, load *)
(* returns; when that is not a well-formed store, the store is empty       *)
(* afterwards and every task is reported never_run.                        *)
C23_LoadNeverFails ==
    ret.call = "load" =>
        /\ ~ret.raised
        /\ ~WellFormedStore(state_file) =>
              /\ state = <<>>
              /\ \A t \in {"A", "B"} :
                    check_task_status(t, tasks[t], NoArgs, NoDeps).reason = "never_run"

(* C25: hash_arguments of None or of the empty map is the empty string and *)
(* the cache key is then the definition hash alone; the hash of a          *)
(* non-empty map is not empty, whatever its values, and the key then       *)
(* differs from the definition hash; the same items given in another order *)
(* hash the same.                                                          *)
C25_ArgumentsHash ==
    ret.call = "hash_arguments" =>
        /\ (ret.args = None \/ Len(ret.args) = 0) =>
              /\ ret.value = EmptyStr
              /\ ret.cache_key = hash_task_definition(tasks[ret.task])
        /\ (ret.args # None /\ Len(ret.args) > 0) =>
              /\ ret.value # EmptyStr
              /\ ret.cache_key # hash_task_definition(tasks[ret.task])
              /\ \A other \in GivenArgs \ {None} :
                    Range(other) = Range(ret.args) =>
                        hash_arguments(other) = ret.value

C25_Witness ==
    /\ ret.call = "hash_arguments"
    /\ ret.args = << <<"b", "">>, <<"a", "x">> >>
    /\ ret.value = hash_arguments(<< <<"a", "x">>, <<"b", "">> >>)

(* C26: the command "{{ var.a }}-{{ arg.b }}", executed with argument      *)
(* b = "y" (and variable a = "x"), is spawned as the text "x-y": each      *)
(* placeholder replaced by the value bound to its name.                    *)
C26_RendersBothScopes ==
    (/\ ret.call = "execute_task"
     /\ tasks[ret.task].cmd = "{{ var.a }}-{{ arg.b }}"
     /\ ret.args = [b |-> "y"]) =>
        ret.spawned[1].cmd = <<[text |-> "x"], [text |-> "-"], [text |-> "y"]>>

(* C27: execute_task of a command with a placeholder, called without       *)
(* arguments, fails before anything is spawned and leaves the store and    *)
(* its file as they were.                                                  *)
C27_UnboundIsFailure ==
    (/\ ret.call = "execute_task"
     /\ ret.args = NoArgs
     /\ \E i \in DOMAIN CmdPieces(tasks[ret.task].cmd) :
            "placeholder" \in DOMAIN CmdPieces(tasks[ret.task].cmd)[i]) =>
        /\ ret.spawned = <<>>
        /\ ret.value # 0
        /\ ret.store_unchanged

(* C28: an invocation by name that succeeds has executed, before the       *)
(* task, every task of its closure that was not fresh, and has executed    *)
(* no task that was fresh.                                                 *)
C28_CliIsClosureRun ==
    (ret.call = "execute_task_command" /\ ret.exit_code = 0) =>
        /\ \A d \in TransitiveDeps(tasks, ret.task) \ ret.fresh :
              /\ d \in Range(ret.executed)
              /\ Position(ret.executed, d) < Position(ret.executed, ret.task)
        /\ Range(ret.executed) \cap ret.fresh = {}

ReasonOrder ==
    <<"never_run", "inputs_changed", "outputs_missing", "dependency_triggered",
      "no_outputs">>

ConditionHolds(reason) ==
    CASE reason = "never_run" -> CheckedKey \notin DOMAIN state
      [] reason = "inputs_changed" ->
            /\ CheckedKey \in DOMAIN state
            /\ _get_input_changes(fs, CheckedTask, state[CheckedKey]) # {}
      [] reason = "outputs_missing" -> CheckedMissing # {}
      [] reason = "dependency_triggered" -> CheckedDepRan
      [] reason = "no_outputs" ->
            CheckedTask.inputs = <<>> /\ CheckedTask.outputs = <<>>

MatchedInputs(t) ==
    {f \in Files : /\ fs[f].exists
                   /\ \E i \in DOMAIN tasks[t].inputs :
                        \/ tasks[t].inputs[i] = f
                        \/ tasks[t].inputs[i] = "*.o" /\ f \in {"a.o", "b.o"}}

C33_StoreIsPruned ==
    pc = "idle" =>
        /\ \A k \in DOMAIN state : DefinitionPart(k) \in ValidHashes
        /\ state_file = save(state)

C33_Witness ==
    /\ pc = "idle"
    /\ state # <<>>
    /\ state_file = save(state)
    /\ \E k \in DOMAIN seen :
          k \notin DOMAIN state /\ DefinitionPart(k) \notin ValidHashes

(* In the history of executions, task t ran under its present definition, *)
(* then, as the last execution of t, under a different one at index j.     *)
RanChangedAt(t, j) ==
    /\ j \in DOMAIN run.log
    /\ run.log[j].task = t
    /\ run.log[j].definition # tasks[t]
    /\ \E i \in 1..(j - 1) : run.log[i].task = t /\ run.log[i].definition = tasks[t]
    /\ \A k \in (j + 1)..Len(run.log) : run.log[k].task # t

(* C39 as stated: a task whose definition was changed, run under the       *)
(* changed definition and restored to its original text is reported        *)
(* never_run by the next check.                                            *)
C39_RestoredIsNeverRun ==
    (last_check.called /\ \E j \in DOMAIN run.log : RanChangedAt(last_check.task, j))
        => last_check.result.reason = "never_run"

(* C39, amended: the restored task is reported never_run when, in the      *)
(* invocation where it ran under the changed definition, no task of the    *)
(* recipe had the original definition's hash (so the change altered cmd,   *)
(* outputs, working_dir or args, and no other task shared the hash), and   *)
(* no task with that hash has been executed since.                         *)
C39_RestoredIsNeverRunIfPruned ==
    \A j \in DOMAIN run.log :
        (/\ last_check.called
         /\ RanChangedAt(last_check.task, j)
         /\ hash_task_definition(tasks[last_check.task]) \notin run.log[j].valid_hashes
         /\ \A k \in (j + 1)..Len(run.log) :
               hash_task_definition(run.log[k].definition)
                  # hash_task_definition(tasks[last_check.task]))
            => last_check.result.reason = "never_run"

C39_Witness ==
    /\ last_check.called
    /\ last_check.result.reason = "never_run"
    /\ CacheKey(tasks[last_check.task], NoArgs) \in DOMAIN seen
    /\ \E j \in DOMAIN run.log :
          /\ RanChangedAt(last_check.task, j)
          /\ hash_task_definition(tasks[last_check.task]) \notin run.log[j].valid_hashes

(* C34: on every task map, cyclic ones included, get_task_dependencies     *)
(* ends and returns the names reachable from the task through one or more  *)
(* deps edges, without the task itself (nothing for a name that is not a   *)
(* task); the list the closure run is built from, when it is built, holds  *)
(* these and the task.                                                     *)
C34_ClosureIsReachable ==
    ret.call = "get_task_dependencies" =>
        /\ ret.terminated
        /\ ret.dependencies =
              IF ret.task_name \in DOMAIN tasks
              THEN TransitiveDeps(tasks, ret.task_name) \ {ret.task_name}
              ELSE {}
        /\ ~ret.raised => ret.execution_set = ret.dependencies \cup {ret.task_name}

C34_Witness ==
    /\ ret.call = "get_task_dependencies"
    /\ ret.task_name = "A"
    /\ OnCycle(tasks, "A")
    /\ ret.terminated
    /\ ret.dependencies = {"B", "C"}
    /\ ret.execution_set = {"A", "B", "C"}

(* The text of a command given as pieces, token by token, and the text of  *)
(* a command with the value of each supplied argument put, as it is, in    *)
(* the place of the argument's placeholders.                               *)
RECURSIVE AsText(_)
AsText(pieces) ==
    IF pieces = <<>> THEN <<>>
    ELSE (IF "placeholder" \in DOMAIN Head(pieces)
          THEN <<"{{", Head(pieces).placeholder, "}}">>
          ELSE <<Head(pieces).text>>) \o AsText(Tail(pieces))

RECURSIVE InsertedLiterally(_, _)
InsertedLiterally(pieces, args) ==
    IF pieces = <<>> THEN <<>>
    ELSE LET piece == Head(pieces)
             given == {i \in DOMAIN args :
                        "placeholder" \in DOMAIN piece
                            /\ args[i][1] = piece.placeholder}
         IN  (IF given # {}
              THEN AsText(CmdPieces(args[CHOOSE i \in given : TRUE][2]))
              ELSE AsText(<<piece>>))
             \o InsertedLiterally(Tail(pieces), args)

(* C35: the command _prepare_command returns has the value of each         *)
(* argument where the argument's placeholder was, placeholder text in a    *)
(* value left as it is, and is the same for every order of the arguments.  *)
C35_ValuesInsertedLiterally ==
    (ret.call = "_prepare_command" /\ ret.args # None) =>
        /\ AsText(ret.value) = InsertedLiterally(CmdPieces(ret.cmd), ret.args)
        /\ \A other \in RenderArgs \ {None} :
              Range(other) = Range(ret.args) =>
                  AsText(_prepare_command(ret.cmd, other)) = AsText(ret.value)

(* The paths check_task_status has to probe for the checked task, and      *)
(* whether one of them cannot be probed.                                   *)
ProbedPaths ==
    InputCandidates(CheckedTask) \cup (Range(CheckedTask.outputs) \cap Files)

(* C36: when a path among the inputs or outputs of the checked task        *)
(* cannot be probed (a broken link, permission denied), check_task_status  *)
(* returns, and returns will_run.                                          *)
C36_ProbeErrorRuns ==
    (last_check.called /\ \E f \in ProbedPaths : Kind(fs, f) # "file") =>
        /\ ~last_check.raised
        /\ last_check.result.will_run

====
